---- MODULE Spec2Model ----
(***************************************************************************)
(* Verification model of apifuzz: the native fuzz runner                   *)
(* (crates/apifuzz-runner/src/native), the response validation checks,     *)
(* the failure classifier (crates/apifuzz-core/src/convert.rs), the        *)
(* verdict policy (crates/apifuzz-core/src/verdict) and the CLI's fuzz     *)
(* command (crates/apifuzz-cli/src/main.rs).                               *)
(*                                                                         *)
(* Option<T> is modelled as a sequence of length 0 (None) or 1 (Some).     *)
(* A header value is a sequence of tokens; ";" and " " are the separator   *)
(* and the whitespace characters the code splits and trims on.             *)
(***************************************************************************)
EXTENDS Integers, Sequences, FiniteSets, TLC

VARIABLES
    pc,               \* "run": inside NativeRunner::run; "done": run returned; "exit": process exited
    spec_file,        \* the file at NativeRunner.spec_path: readable, parseable, its operations
    client_builds,    \* whether reqwest's Client::builder().build() succeeds
    run_error,        \* Option<NativeError>: the error NativeRunner::run returned
    stop_on_failure,  \* NativeRunner.stop_on_failure
    limit,            \* NativeRunner.limit : Option<u32>
    pos,              \* position of the 'ops loop: operation, phase, iteration, op_count
    acc,              \* FuzzAccumulator
    stopped_early,    \* local of NativeRunner::run
    rng,              \* number of case ids drawn from the run's RNG
    wire,             \* the requests put on the wire, in send order (observed by the server)
    server,           \* what the server under test can answer to a request
    process_exit,     \* Option<i32>: exit code of the process
    final_verdict,    \* Option<Verdict>: final_verdict of the fuzz command
    cli,              \* Option: the flags and config the fuzz command read (strict, success criteria)
    call,             \* name of the pure function last applied ("none" during a run)
    arg,              \* its input
    res               \* its result

vars == <<pc, spec_file, client_builds, run_error, stop_on_failure, limit, pos, acc,
          stopped_early, rng, wire, server, process_exit, final_verdict, cli,
          call, arg, res>>

runVars == <<pc, spec_file, client_builds, run_error, stop_on_failure, limit, pos, acc,
             stopped_early, rng, wire, server, process_exit, final_verdict, cli>>

fnVars == <<call, arg, res>>

-----------------------------------------------------------------------------
(* Bounds of the model *)

MaxExamples == 3
MaxCases == 1
MaxLimit == 2
MaxFailures == 2
MaxDeclared == 2

-----------------------------------------------------------------------------
(* Generic helpers *)

None == <<>>

Some(x) == <<x>>

is_some(o) == Len(o) = 1

Min(a, b) == IF a < b THEN a ELSE b

Max(a, b) == IF a < b THEN b ELSE a

Range(s) == {s[i] : i \in 1..Len(s)}

contains(s, x) == \E i \in 1..Len(s) : s[i] = x

\* HashMap::get / BTreeMap::get on a map modelled as a function
get(m, k) == IF k \in DOMAIN m THEN Some(m[k]) ELSE None

EmptyMap == [k \in {} |-> 0]

RECURSIVE SeqSum(_)
SeqSum(s) == IF s = <<>> THEN 0 ELSE Head(s) + SeqSum(Tail(s))

RECURSIVE Flatten(_)
Flatten(ss) == IF ss = <<>> THEN <<>> ELSE Head(ss) \o Flatten(Tail(ss))

Count(s, P(_)) == Cardinality({i \in 1..Len(s) : P(s[i])})

-----------------------------------------------------------------------------
(* OpenAPI operations: native/spec.rs *)

\* format!("{} {}", op.method, op.path)
op_label(op) == <<op.method, " ", op.path>>

\* The operations extract_operations returns for the document under test:
\* POST /orders declares 200 without content and takes one boolean query
\* parameter; GET /health declares 200 with application/json and the empty
\* schema {}, and 404 with application/json and an error schema.
Operations ==
    << [method |-> "POST", path |-> "/orders",
        parameters |-> << [name |-> "dry", location |-> "query",
                           schema |-> [type |-> "boolean"], required |-> FALSE] >>,
        request_body_schema |-> None,
        expected_statuses |-> <<200>>,
        response_schemas |-> EmptyMap,
        response_content_types |-> EmptyMap,
        response_headers |-> EmptyMap],
       [method |-> "GET", path |-> "/health",
        parameters |-> <<>>,
        request_body_schema |-> None,
        expected_statuses |-> <<200, 404>>,
        response_schemas |-> [s \in {200, 404} |-> IF s = 200 THEN "empty" ELSE "nonempty"],
        response_content_types |-> [s \in {200, 404} |-> <<"application/json">>],
        response_headers |-> EmptyMap] >>

\* An operation without parameters and without a request body that declares
\* 200 with application/json and the empty schema {}
QuietOp ==
    [method |-> "GET", path |-> "/status",
     parameters |-> <<>>,
     request_body_schema |-> None,
     expected_statuses |-> <<200>>,
     response_schemas |-> [s \in {200} |-> "empty"],
     response_content_types |-> [s \in {200} |-> <<"application/json">>],
     response_headers |-> EmptyMap]

\* The spec files of the runs: a file that cannot be read, a file that is
\* neither JSON nor YAML, a document without operations, the document with
\* the two operations, and a document with the quiet operation only
SpecFiles ==
    { [readable |-> FALSE, parses |-> FALSE, operations |-> <<>>, components |-> EmptyMap],
      [readable |-> TRUE, parses |-> FALSE, operations |-> <<>>, components |-> EmptyMap],
      [readable |-> TRUE, parses |-> TRUE, operations |-> <<>>, components |-> EmptyMap],
      [readable |-> TRUE, parses |-> TRUE, operations |-> Operations, components |-> EmptyMap],
      [readable |-> TRUE, parses |-> TRUE, operations |-> <<QuietOp>>, components |-> EmptyMap] }

\* let operations = extract_operations(&spec)
operations == spec_file.operations

NumOps == Len(operations)

\* let components = spec.get("components").and_then(|c| c.get("schemas"))
components == spec_file.components

\* Config.probes
Probes ==
    << [operation |-> <<"POST", " ", "/orders">>, target |-> "dry",
        int |-> <<>>, float |-> <<>>, string |-> <<>>, bools |-> <<TRUE>>, null |-> FALSE] >>

-----------------------------------------------------------------------------
(* Phases and status expectations: native/phases.rs *)

FuzzPhase == <<"Probe", "Boundary", "TypeConfusion", "Neighborhood", "Random">>

SuccessExpected(codes) == [kind |-> "SuccessExpected", codes |-> codes]

AnyDeclared(codes) == [kind |-> "AnyDeclared", codes |-> codes]

Rejection == [kind |-> "Rejection", codes |-> <<>>]

is_2xx(c) == c >= 200 /\ c < 300

is_5xx(c) == c >= 500 /\ c < 600

\* from_phase that takes every declared code as a success code
from_phase_unfiltered(op, phase) ==
    LET declared == op.expected_statuses IN
    CASE phase = "Random" ->
            IF declared = <<>> THEN SuccessExpected(<<200>>)
            ELSE SuccessExpected(declared)
      [] phase \in {"Probe", "Boundary", "Neighborhood"} ->
            IF declared = <<>> THEN AnyDeclared(<<200>>) ELSE AnyDeclared(declared)
      [] phase = "TypeConfusion" -> Rejection

from_phase(op, phase) ==
    LET declared == op.expected_statuses IN
    CASE phase = "Random" ->
            LET success_codes == SelectSeq(declared, is_2xx) IN
            IF success_codes = <<>> THEN SuccessExpected(<<200>>)
            ELSE SuccessExpected(success_codes)
      [] phase \in {"Probe", "Boundary", "Neighborhood"} ->
            IF declared = <<>> THEN AnyDeclared(<<200>>) ELSE AnyDeclared(declared)
      [] phase = "TypeConfusion" -> Rejection

-----------------------------------------------------------------------------
(* Response validation: native/checks.rs *)

make_failure(failure_type, operation, title, case_id, severity, status_code) ==
    [failure_type |-> failure_type, operation |-> operation, title |-> title,
     case_id |-> Some(case_id), severity |-> severity, status_code |-> status_code]

\* actual_ct.split(';').next().unwrap_or("").trim()
RECURSIVE before_semicolon(_)
before_semicolon(ct) ==
    IF ct = <<>> \/ Head(ct) = ";" THEN <<>>
    ELSE <<Head(ct)>> \o before_semicolon(Tail(ct))

RECURSIVE trim_start(_)
trim_start(t) == IF t # <<>> /\ Head(t) = " " THEN trim_start(Tail(t)) ELSE t

RECURSIVE trim_end(_)
trim_end(t) ==
    IF t # <<>> /\ t[Len(t)] = " " THEN trim_end(SubSeq(t, 1, Len(t) - 1)) ELSE t

\* media_type that keeps the parameters after the semicolon
media_type_with_parameters(ct) == trim_end(trim_start(ct))

media_type(ct) == trim_end(trim_start(before_semicolon(ct)))

\* serde_json::from_str(body).is_ok(): the bodies are "" (empty), "text"
\* (not JSON), "json_ok" (JSON the declared schema accepts), "json_bad"
\* (JSON the declared schema rejects with one error) and "text_split" (not
\* JSON, longer than 200 bytes, with byte 200 inside a multi-byte character).
is_json(body) == body \in {"json_ok", "json_bad"}

\* &input.body_text[..input.body_text.len().min(200)] in the message of the
\* 'not valid JSON' findings: slicing a str at a byte that is not a character
\* boundary panics
slice_panics(body) == body = "text_split"

\* validator.iter_errors(&body_val).take(5)
body_errors(schema, body) == IF schema = "nonempty" /\ body = "json_bad" THEN 1 ELSE 0

schema_is_nonempty_object(schema) == schema = "nonempty"

\* check_status_expectation that reports every unexpected status as high
check_status_expectation_always_high(input) ==
    LET status == input.status_code
        e == input.expectation
        fail(title, severity) ==
            << make_failure("StatusSatisfyExpectation", input.operation_label, title,
                            input.case_id, severity, Some(status)) >>
    IN
    IF is_5xx(status) THEN <<>>
    ELSE CASE e.kind = "SuccessExpected" ->
                IF ~contains(e.codes, status)
                THEN fail("Valid input rejected", "high")
                ELSE <<>>
           [] e.kind = "AnyDeclared" ->
                IF ~contains(e.codes, status)
                THEN fail("Undeclared status code", "medium")
                ELSE <<>>
           [] e.kind = "Rejection" ->
                IF is_2xx(status)
                THEN fail("Invalid input accepted", "medium")
                ELSE <<>>

\* check_status_expectation without the early return for 5xx
check_status_expectation_on_5xx(input) ==
    LET status == input.status_code
        e == input.expectation
        fail(title, severity) ==
            << make_failure("StatusSatisfyExpectation", input.operation_label, title,
                            input.case_id, severity, Some(status)) >>
    IN
    CASE e.kind = "SuccessExpected" ->
            IF ~contains(e.codes, status)
            THEN IF is_2xx(status)
                 THEN fail("Unexpected success status code", "medium")
                 ELSE fail("Valid input rejected", "high")
            ELSE <<>>
      [] e.kind = "AnyDeclared" ->
            IF ~contains(e.codes, status)
            THEN fail("Undeclared status code", "medium")
            ELSE <<>>
      [] e.kind = "Rejection" ->
            IF is_2xx(status)
            THEN fail("Invalid input accepted", "medium")
            ELSE <<>>

check_status_expectation(input) ==
    LET status == input.status_code
        e == input.expectation
        fail(title, severity) ==
            << make_failure("StatusSatisfyExpectation", input.operation_label, title,
                            input.case_id, severity, Some(status)) >>
    IN
    IF is_5xx(status) THEN <<>>
    ELSE CASE e.kind = "SuccessExpected" ->
                IF ~contains(e.codes, status)
                THEN IF is_2xx(status)
                     THEN fail("Unexpected success status code", "medium")
                     ELSE fail("Valid input rejected", "high")
                ELSE <<>>
           [] e.kind = "AnyDeclared" ->
                IF ~contains(e.codes, status)
                THEN fail("Undeclared status code", "medium")
                ELSE <<>>
           [] e.kind = "Rejection" ->
                IF is_2xx(status)
                THEN fail("Invalid input accepted", "medium")
                ELSE <<>>

\* format!("{}:{status}:<check>", input.operation_label)
gap_key(label, status, check) == label \o <<":", ToString(status), ":", check>>

\* value_str.parse::<i64>() / parse::<f64>() on the header texts of the model
parses_as_number(text) == text \in {"7", "42"}

number_of(text) == IF text = "7" THEN 7 ELSE 42

\* Some(coerced value) or None when the text cannot be parsed as the type
coerce_header(type_str, text) ==
    CASE type_str \in {"integer", "number"} ->
            IF parses_as_number(text) THEN Some(number_of(text)) ELSE None
      [] type_str = "boolean" ->
            IF text \in {"true", "false"} THEN Some(text = "true") ELSE None
      [] OTHER -> Some(text)

\* validator.iter_errors(&val).take(3) for a header schema {type, maximum}
header_errors(schema, type_str, val) ==
    IF type_str \in {"integer", "number"}
    THEN IF is_some(schema.maximum) /\ val > schema.maximum[1] THEN 1 ELSE 0
    ELSE IF type_str \in {"array", "object", "null"} THEN 1 ELSE 0

validate_header_value(operation_label, case_id, status, header_name, value_str, schema) ==
    LET type_str == schema.type
        coerced == coerce_header(type_str, value_str)
        fail(title) ==
            << make_failure("HeaderSatisfyExpectation", operation_label, title,
                            case_id, "medium", Some(status)) >>
    IN
    IF coerced = None THEN fail("Response header type mismatch")
    ELSE IF header_errors(schema, type_str, coerced[1]) > 0
         THEN fail("Response header schema violation")
         ELSE <<>>

\* declared_header_failures that reports every absent declared header
RECURSIVE declared_header_failures_required_or_not(_, _)
declared_header_failures_required_or_not(input, hdrs) ==
    IF hdrs = <<>> THEN <<>>
    ELSE LET hdr == Head(hdrs)
             actual_value == get(input.response_headers, hdr.name)
             here ==
                IF actual_value = None
                THEN << make_failure("HeaderSatisfyExpectation", input.operation_label,
                                     "Required response header missing", input.case_id,
                                     "medium", Some(input.status_code)) >>
                ELSE IF is_some(actual_value) /\ is_some(hdr.schema)
                     THEN validate_header_value(input.operation_label, input.case_id,
                                                input.status_code, hdr.name,
                                                actual_value[1], hdr.schema[1])
                     ELSE <<>>
         IN here \o declared_header_failures_required_or_not(input, Tail(hdrs))

\* The loop over the response headers declared for the status
RECURSIVE declared_header_failures(_, _)
declared_header_failures(input, hdrs) ==
    IF hdrs = <<>> THEN <<>>
    ELSE LET hdr == Head(hdrs)
             actual_value == get(input.response_headers, hdr.name)
             here ==
                IF hdr.required /\ actual_value = None
                THEN << make_failure("HeaderSatisfyExpectation", input.operation_label,
                                     "Required response header missing", input.case_id,
                                     "medium", Some(input.status_code)) >>
                ELSE IF is_some(actual_value) /\ is_some(hdr.schema)
                     THEN validate_header_value(input.operation_label, input.case_id,
                                                input.status_code, hdr.name,
                                                actual_value[1], hdr.schema[1])
                     ELSE <<>>
         IN here \o declared_header_failures(input, Tail(hdrs))

\* Returns the failures pushed and the dedup set as the check leaves it
check_header_expectation(input, seen) ==
    LET status == input.status_code
        is_success == is_2xx(status)
        label == input.operation_label
        fail(title, severity) ==
            << make_failure("HeaderSatisfyExpectation", label, title,
                            input.case_id, severity, Some(status)) >>
        expected == get(input.op.response_content_types, status)
        key == gap_key(label, status, "ct_missing")
        ct ==
            IF is_some(expected) /\ expected[1] # <<>>
            THEN IF is_some(input.content_type)
                 THEN LET actual_media == media_type(input.content_type[1]) IN
                      IF ~\E i \in 1..Len(expected[1]) : <<expected[1][i]>> = actual_media
                      THEN [failures |-> fail("Unexpected Content-Type", "medium"), seen |-> seen]
                      ELSE [failures |-> <<>>, seen |-> seen]
                 ELSE [failures |-> fail("Missing Content-Type header", "medium"), seen |-> seen]
            ELSE IF is_success
                 THEN IF key \notin seen
                      THEN [failures |-> fail("No content types declared in spec", "low"),
                            seen |-> seen \cup {key}]
                      ELSE [failures |-> <<>>, seen |-> seen]
                 ELSE [failures |-> <<>>, seen |-> seen]
        expected_headers == get(input.op.response_headers, status)
        hdrs == IF is_some(expected_headers)
                THEN declared_header_failures(input, expected_headers[1])
                ELSE <<>>
    IN [failures |-> ct.failures \o hdrs, seen |-> ct.seen]

\* Returns the failures pushed, the dedup set as the check leaves it, and
\* whether the check panicked before pushing
check_body_expectation(input, seen) ==
    LET status == input.status_code
        is_success == is_2xx(status)
        label == input.operation_label
        fail(title, severity) ==
            << make_failure("BodySatisfyExpectation", label, title,
                            input.case_id, severity, Some(status)) >>
        done(failures, seen_after) ==
            [failures |-> failures, seen |-> seen_after, panicked |-> FALSE]
        not_valid_json(severity) ==
            IF slice_panics(input.body_text)
            THEN [failures |-> <<>>, seen |-> seen, panicked |-> TRUE]
            ELSE done(fail("Response body is not valid JSON", severity), seen)
        mime_violation ==
            /\ is_some(input.content_type)
            /\ media_type(input.content_type[1]) = <<"application/json">>
            /\ input.body_text # ""
            /\ ~is_json(input.body_text)
        schema == get(input.op.response_schemas, status)
        gap(check, title) ==
            LET key == gap_key(label, status, check) IN
            IF key \notin seen
            THEN done(fail(title, "low"), seen \cup {key})
            ELSE done(<<>>, seen)
    IN
    IF mime_violation
    THEN not_valid_json("high")
    ELSE IF is_some(schema) /\ schema_is_nonempty_object(schema[1])
         THEN IF is_json(input.body_text)
              THEN IF body_errors(schema[1], input.body_text) > 0
                   THEN done(fail("Response body does not match schema", "medium"), seen)
                   ELSE done(<<>>, seen)
              ELSE IF input.body_text # ""
                   THEN not_valid_json("medium")
                   ELSE done(<<>>, seen)
         ELSE IF is_some(schema) /\ is_success
              THEN gap("schema_empty", "Response schema is empty")
              ELSE IF schema = None /\ is_success /\ input.body_text # ""
                   THEN gap("schema_missing", "No response schema defined")
                   ELSE done(<<>>, seen)

\* run_checks that leaves the dedup set as it found it
run_checks_without_dedup(input, seen) ==
    LET status == input.status_code
        server_error ==
            IF is_5xx(status)
            THEN << make_failure("ServerError", input.operation_label, "Server error",
                                 input.case_id, "critical", Some(status)) >>
            ELSE <<>>
        response_time ==
            IF is_some(input.response_time_limit)
               /\ input.elapsed > input.response_time_limit[1]
            THEN << make_failure("ResponseTimeExceeded", input.operation_label,
                                 "Response time limit exceeded", input.case_id,
                                 "medium", Some(status)) >>
            ELSE <<>>
        st == check_status_expectation(input)
        hd == check_header_expectation(input, seen)
        bd == check_body_expectation(input, seen)
    IN [failures |-> server_error \o response_time \o st \o hd.failures \o bd.failures,
        seen |-> seen, panicked |-> bd.panicked]

\* Returns the failures pushed for one response, the dedup set after the
\* checks, and whether a check panicked
run_checks(input, seen) ==
    LET status == input.status_code
        server_error ==
            IF is_5xx(status)
            THEN << make_failure("ServerError", input.operation_label, "Server error",
                                 input.case_id, "critical", Some(status)) >>
            ELSE <<>>
        response_time ==
            IF is_some(input.response_time_limit)
               /\ input.elapsed > input.response_time_limit[1]
            THEN << make_failure("ResponseTimeExceeded", input.operation_label,
                                 "Response time limit exceeded", input.case_id,
                                 "medium", Some(status)) >>
            ELSE <<>>
        st == check_status_expectation(input)
        hd == check_header_expectation(input, seen)
        bd == check_body_expectation(input, hd.seen)
    IN [failures |-> server_error \o response_time \o st \o hd.failures \o bd.failures,
        seen |-> bd.seen, panicked |-> bd.panicked]

-----------------------------------------------------------------------------
(* JSON values (serde_json::Value): t is the JSON type, n the integer or   *)
(* boolean payload, s the text of a string, float or container literal.    *)

JInt(n) == [t |-> "integer", n |-> n, s |-> ""]

JFloat(text) == [t |-> "float", n |-> 0, s |-> text]

JStr(text) == [t |-> "string", n |-> 0, s |-> text]

JBool(b) == [t |-> "boolean", n |-> IF b THEN 1 ELSE 0, s |-> ""]

JNull == [t |-> "null", n |-> 0, s |-> ""]

JArr(text) == [t |-> "array", n |-> 0, s |-> text]

JObj(text) == [t |-> "object", n |-> 0, s |-> text]

-----------------------------------------------------------------------------
(* Data generator: datagen.rs, for the schemas {type: integer} with an     *)
(* optional minimum and maximum, {type: boolean}, {type: null} and the     *)
(* schema without a type.                                                  *)
(*                                                                         *)
(* The model checker's integers are narrower than i64, so the word widths  *)
(* are scaled down and keep their order: i32 has 20 bits, u32 has 20 bits, *)
(* the JavaScript safe-integer edge is 2^26 and i64 has 31 bits. The       *)
(* literal thresholds of integer_boundaries (at most 65 536) stay below    *)
(* every scaled edge, as they do below the real ones.                      *)

\* schema.get(key) on a schema modelled as a record
schema_get(schema, key) == IF key \in DOMAIN schema THEN Some(schema[key]) ELSE None

I32_MIN == -524288

I32_MAX == 524287

U32_MAX == 1048575

MAX_SAFE_INTEGER == 67108863

I64_MIN == -1073741824

I64_MAX == 1073741823

\* i64::checked_sub(1) and i64::checked_add(1)
checked_sub_1(v) == IF v = I64_MIN THEN None ELSE Some(v - 1)

checked_add_1(v) == IF v = I64_MAX THEN None ELSE Some(v + 1)

\* Vec::sort on integers (ascending; equal elements stay adjacent)
RECURSIVE sort(_)
sort(values) ==
    IF values = <<>> THEN <<>>
    ELSE LET least == CHOOSE i \in 1..Len(values) :
                          \A j \in 1..Len(values) :
                              values[i] < values[j] \/ (values[i] = values[j] /\ i <= j)
         IN <<values[least]>>
            \o sort([k \in 1..(Len(values) - 1) |->
                         IF k < least THEN values[k] ELSE values[k + 1]])

\* Vec::dedup: removes consecutive repeated elements
RECURSIVE dedup(_)
dedup(values) ==
    IF Len(values) <= 1 THEN values
    ELSE IF values[1] = values[2] THEN dedup(Tail(values))
         ELSE <<values[1]>> \o dedup(Tail(values))

\* datagen::integer_boundaries
integer_boundaries(schema) ==
    LET min == schema_get(schema, "minimum")
        max == schema_get(schema, "maximum")
        values ==
            [i \in 1..21 |-> i - 11]
            \o <<100, 255, 256, 1000, 1024, 4096, 10000, 65535, 65536>>
            \o <<I32_MIN, I32_MIN - 1, I32_MAX, I32_MAX + 1, U32_MAX, U32_MAX + 1>>
            \o <<I64_MIN, I64_MAX>>
            \o <<MAX_SAFE_INTEGER, MAX_SAFE_INTEGER + 1>>
            \o (IF is_some(min) THEN <<min[1]>> \o checked_sub_1(min[1]) ELSE <<>>)
            \o (IF is_some(max) THEN <<max[1]>> \o checked_add_1(max[1]) ELSE <<>>)
        unique == dedup(sort(values))
    IN [i \in 1..Len(unique) |-> JInt(unique[i])]

MAX_DEPTH == 20

\* datagen::resolve_ref; a reference is the pair <<prefix, name>> of its text
resolve_ref(ref_str, components_) ==
    IF ref_str[1] = "#/components/schemas/" /\ ref_str[2] \in DOMAIN components_
    THEN Some(components_[ref_str[2]]) ELSE None

\* schema.get("type").and_then(|v| v.as_str()).unwrap_or("")
type_str(schema) == IF is_some(schema_get(schema, "type")) THEN schema.type ELSE ""

\* str::to_uppercase and str::to_lowercase on the words of the enums here
to_uppercase(s) == IF s \in {"active", "Active", "ACTIVE"} THEN "ACTIVE" ELSE s

to_lowercase(s) == IF s \in {"active", "Active", "ACTIVE"} THEN "active" ELSE s

\* datagen::casing_variants
casing_variants(s) ==
    LET upper == to_uppercase(s)
        lower == to_lowercase(s)
        title == IF lower = "active" THEN "Active" ELSE lower
    IN (IF upper # s THEN <<JStr(upper)>> ELSE <<>>)
       \o (IF lower # s THEN <<JStr(lower)>> ELSE <<>>)
       \o (IF title # s /\ title # upper /\ title # lower THEN <<JStr(title)>> ELSE <<>>)
       \o <<JStr(" " \o s), JStr(s \o " ")>>

\* boundaries_inner that stops when the depth reaches MAX_DEPTH
RECURSIVE boundaries_inner_stops_at_max_depth(_, _, _)
boundaries_inner_stops_at_max_depth(schema, components_, depth) ==
    LET ref == schema_get(schema, "$ref")
        enum_values == schema_get(schema, "enum")
        of_enum(ev) == IF ev.t = "string" THEN casing_variants(ev.s) ELSE <<>>
    IN IF depth >= MAX_DEPTH THEN <<>>
       ELSE IF is_some(ref)
       THEN LET resolved == resolve_ref(ref[1], components_) IN
            IF is_some(resolved)
            THEN boundaries_inner_stops_at_max_depth(resolved[1], components_, depth + 1)
            ELSE <<>>
       ELSE IF is_some(enum_values)
       THEN enum_values[1]
            \o Flatten([i \in 1..Len(enum_values[1]) |-> of_enum(enum_values[1][i])])
            \o <<JStr("__INVALID_ENUM_VALUE__")>>
       ELSE CASE type_str(schema) = "integer" -> integer_boundaries(schema)
              [] type_str(schema) = "boolean" -> <<JBool(TRUE), JBool(FALSE)>>
              [] type_str(schema) = "null" -> <<JNull>>
              [] type_str(schema) \in {"array", "object", ""} -> <<>>

\* datagen::boundaries_inner, without the anyOf / oneOf branch and without
\* the number and string arms (no schema here has them)
RECURSIVE boundaries_inner(_, _, _)
boundaries_inner(schema, components_, depth) ==
    LET ref == schema_get(schema, "$ref")
        enum_values == schema_get(schema, "enum")
        of_enum(ev) == IF ev.t = "string" THEN casing_variants(ev.s) ELSE <<>>
    IN IF depth > MAX_DEPTH THEN <<>>
       ELSE IF is_some(ref)
       THEN LET resolved == resolve_ref(ref[1], components_) IN
            IF is_some(resolved)
            THEN boundaries_inner(resolved[1], components_, depth + 1) ELSE <<>>
       ELSE IF is_some(enum_values)
       THEN enum_values[1]
            \o Flatten([i \in 1..Len(enum_values[1]) |-> of_enum(enum_values[1][i])])
            \o <<JStr("__INVALID_ENUM_VALUE__")>>
       ELSE CASE type_str(schema) = "integer" -> integer_boundaries(schema)
              [] type_str(schema) = "boolean" -> <<JBool(TRUE), JBool(FALSE)>>
              [] type_str(schema) = "null" -> <<JNull>>
              [] type_str(schema) \in {"array", "object", ""} -> <<>>

boundaries(schema, components_) == boundaries_inner(schema, components_, 0)

\* type_confusion_values_inner that sends the integer probes to number schemas
RECURSIVE type_confusion_values_inner_integers_for_number(_, _, _)
type_confusion_values_inner_integers_for_number(schema, components_, depth) ==
    LET ref == schema_get(schema, "$ref")
        declared == type_str(schema)
    IN
    IF depth > MAX_DEPTH THEN <<>>
    ELSE IF is_some(ref)
    THEN LET resolved == resolve_ref(ref[1], components_) IN
         IF is_some(resolved)
         THEN type_confusion_values_inner_integers_for_number(resolved[1], components_,
                                                              depth + 1)
         ELSE <<>>
    ELSE IF is_some(schema_get(schema, "enum")) THEN <<>>
    ELSE
    (IF declared # "string" THEN <<JStr(""), JStr("123"), JStr("true")>> ELSE <<>>)
    \o (IF declared # "integer" THEN <<JInt(0), JInt(42)>> ELSE <<>>)
    \o (IF declared # "number" /\ declared # "integer" THEN <<JFloat("3.14")>>
        ELSE IF declared = "integer" THEN <<JFloat("3.14")>> ELSE <<>>)
    \o (IF declared # "boolean" THEN <<JBool(TRUE), JBool(FALSE)>> ELSE <<>>)
    \o (IF declared # "null" THEN <<JNull>> ELSE <<>>)
    \o (IF declared # "array" THEN <<JArr("[]"), JArr("[1]")>> ELSE <<>>)
    \o (IF declared # "object" THEN <<JObj("{}")>> ELSE <<>>)

\* datagen::type_confusion_values_inner
RECURSIVE type_confusion_values_inner(_, _, _)
type_confusion_values_inner(schema, components_, depth) ==
    LET ref == schema_get(schema, "$ref")
        declared == type_str(schema)
    IN
    IF depth > MAX_DEPTH THEN <<>>
    ELSE IF is_some(ref)
    THEN LET resolved == resolve_ref(ref[1], components_) IN
         IF is_some(resolved)
         THEN type_confusion_values_inner(resolved[1], components_, depth + 1) ELSE <<>>
    ELSE IF is_some(schema_get(schema, "enum")) THEN <<>>
    ELSE
    (IF declared # "string" THEN <<JStr(""), JStr("123"), JStr("true")>> ELSE <<>>)
    \o (IF declared # "integer" /\ declared # "number" THEN <<JInt(0), JInt(42)>> ELSE <<>>)
    \o (IF declared # "number" /\ declared # "integer" THEN <<JFloat("3.14")>>
        ELSE IF declared = "integer" THEN <<JFloat("3.14")>> ELSE <<>>)
    \o (IF declared # "boolean" THEN <<JBool(TRUE), JBool(FALSE)>> ELSE <<>>)
    \o (IF declared # "null" THEN <<JNull>> ELSE <<>>)
    \o (IF declared # "array" THEN <<JArr("[]"), JArr("[1]")>> ELSE <<>>)
    \o (IF declared # "object" THEN <<JObj("{}")>> ELSE <<>>)

type_confusion_values(schema, components_) ==
    type_confusion_values_inner(schema, components_, 0)

\* Generated containers: an array with its items, an object with its
\* (name, value) pairs
JArray(items) == [t |-> "array", n |-> 0, s |-> "", items |-> items]

JObject(fields) == [t |-> "object", n |-> 0, s |-> "", fields |-> fields]

\* datagen::gen_string and random_alnum: the random text is one token
gen_string(schema) == {JStr("alnum")}

\* datagen::gen_integer: the edge values, and the two ends of
\* rng.gen_range(min..=max) for the values in between
gen_integer(schema) ==
    LET has_min == is_some(schema_get(schema, "minimum"))
        has_max == is_some(schema_get(schema, "maximum"))
        min == IF has_min THEN schema.minimum ELSE -1000
        max == IF has_max THEN schema.maximum ELSE 1000
        edges ==
            IF has_min /\ has_max
            THEN {min, max} \cup (IF min <= 0 /\ 0 <= max THEN {0} ELSE {})
            ELSE {0, -1, 1, I64_MIN, I64_MAX}
    IN {JInt(v) : v \in edges \cup {min, max}}

\* datagen::gen_number: the random float is one token
gen_number(schema) == {JFloat("random")}

\* The values datagen::generate_inner can return, over the draws of the RNG;
\* without the anyOf / oneOf / allOf branches (no schema here has them)
RECURSIVE generate_inner(_, _, _)
RECURSIVE gen_array(_, _, _)
RECURSIVE gen_object(_, _, _)
generate_inner(schema, components_, depth) ==
    LET ref == schema_get(schema, "$ref")
        enum_values == schema_get(schema, "enum")
    IN IF depth > MAX_DEPTH THEN {JNull}
       ELSE IF is_some(ref)
       THEN LET resolved == resolve_ref(ref[1], components_) IN
            IF is_some(resolved)
            THEN generate_inner(resolved[1], components_, depth + 1) ELSE {JNull}
       ELSE IF is_some(enum_values) /\ enum_values[1] # <<>>
       THEN {enum_values[1][i] : i \in 1..Len(enum_values[1])}
       ELSE CASE type_str(schema) = "string" -> gen_string(schema)
              [] type_str(schema) = "integer" -> gen_integer(schema)
              [] type_str(schema) = "number" -> gen_number(schema)
              [] type_str(schema) = "boolean" -> {JBool(TRUE), JBool(FALSE)}
              [] type_str(schema) = "array" -> gen_array(schema, components_, depth + 1)
              [] type_str(schema) = "object" -> gen_object(schema, components_, depth + 1)
              [] type_str(schema) = "null" -> {JNull}
              [] OTHER ->
                    IF is_some(schema_get(schema, "properties"))
                    THEN gen_object(schema, components_, depth + 1)
                    ELSE IF is_some(schema_get(schema, "items"))
                    THEN gen_array(schema, components_, depth + 1)
                    ELSE {JStr("alnum")}

\* datagen::gen_array
gen_array(schema, components_, depth) ==
    LET min == IF is_some(schema_get(schema, "minItems")) THEN schema.minItems ELSE 0
        max == IF is_some(schema_get(schema, "maxItems")) THEN schema.maxItems ELSE 3
        items_schema ==
            IF is_some(schema_get(schema, "items")) THEN schema.items ELSE [type |-> "string"]
        item_values == generate_inner(items_schema, components_, depth)
    IN {JArray(items) : items \in UNION {[1..count -> item_values] : count \in min..Max(max, min)}}

\* datagen::gen_object: a property is generated if it is required or the coin says so
gen_object(schema, components_, depth) ==
    LET required == IF is_some(schema_get(schema, "required")) THEN schema.required ELSE <<>>
        props == IF is_some(schema_get(schema, "properties")) THEN schema.properties ELSE <<>>
        of_prop(prop) ==
            {<< [name |-> prop.name, value |-> v] >> :
                v \in generate_inner(prop.schema, components_, depth)}
            \cup (IF contains(required, prop.name) THEN {} ELSE {<<>>})
        RECURSIVE fields_from(_)
        fields_from(i) ==
            IF i > Len(props) THEN {<<>>}
            ELSE {first \o rest : first \in of_prop(props[i]), rest \in fields_from(i + 1)}
    IN {JObject(fields) : fields \in fields_from(1)}

\* datagen::generate
generate(schema, components_) == generate_inner(schema, components_, 0)

\* spec::resolve_refs_inner. Of the values of a schema object, properties is
\* an object of schemas and items is a schema; the others hold no object.
RECURSIVE resolve_refs_inner(_, _, _)
resolve_refs_inner(schema, components_, depth) ==
    LET ref == schema_get(schema, "$ref")
        of_properties(props, d) ==
            IF d > 20 THEN props
            ELSE [i \in 1..Len(props) |->
                    [name |-> props[i].name,
                     schema |-> resolve_refs_inner(props[i].schema, components_, d + 1)]]
        of_value(key, d) ==
            CASE key = "properties" -> of_properties(schema[key], d)
              [] key = "items" -> resolve_refs_inner(schema[key], components_, d)
              [] OTHER -> schema[key]
    IN IF depth > 20 THEN schema
       ELSE IF is_some(ref)
       THEN LET resolved == resolve_ref(ref[1], components_) IN
            IF is_some(resolved)
            THEN resolve_refs_inner(resolved[1], components_, depth + 1) ELSE schema
       ELSE [key \in DOMAIN schema |-> of_value(key, depth + 1)]

\* spec::resolve_refs
resolve_refs(schema, components_) == resolve_refs_inner(schema, components_, 0)

-----------------------------------------------------------------------------
(* Case collection: native/phases.rs and Probe in core/config.rs *)

\* serde_json::Number::from_f64: None for a float that is not finite
from_f64(text) == IF text \in {"NaN", "inf", "-inf"} THEN None ELSE Some(JFloat(text))

\* Probe::to_json_values
to_json_values(probe) ==
    [i \in 1..Len(probe.int) |-> JInt(probe.int[i])]
    \o Flatten([i \in 1..Len(probe.float) |-> from_f64(probe.float[i])])
    \o [i \in 1..Len(probe.string) |-> JStr(probe.string[i])]
    \o [i \in 1..Len(probe.bools) |-> JBool(probe.bools[i])]
    \o (IF probe.null THEN <<JNull>> ELSE <<>>)

\* Probe::matches_operation
matches_operation(probe, method, path) == probe.operation = <<method, " ", path>>

NoOverrides == [params |-> EmptyMap, body_props |-> EmptyMap]

param_override(name, val) == [params |-> [k \in {name} |-> val], body_props |-> EmptyMap]

body_override(name, val) == [params |-> EmptyMap, body_props |-> [k \in {name} |-> val]]

with_expectation(overrides, expectation) ==
    [overrides |-> overrides, expectation |-> expectation]

\* datagen::resolve_object_properties: the (name, schema) pairs of the
\* properties of the schema, or of the component it refers to
resolve_object_properties(schema, components_) ==
    LET ref == schema_get(schema, "$ref")
        resolved ==
            IF is_some(ref) THEN resolve_ref(ref[1], components_) ELSE Some(schema)
        props == IF is_some(resolved) THEN schema_get(resolved[1], "properties") ELSE None
    IN IF is_some(props) THEN props[1] ELSE <<>>

\* datagen::object_property_boundaries: properties with no boundary value are left out
object_property_boundaries(schema, components_) ==
    LET props == resolve_object_properties(schema, components_)
        of_prop(prop) ==
            IF boundaries(prop.schema, components_) # <<>>
            THEN << [name |-> prop.name, bv |-> boundaries(prop.schema, components_)] >>
            ELSE <<>>
    IN Flatten([i \in 1..Len(props) |-> of_prop(props[i])])

\* op.request_body_schema ... get("properties") ... keys()
body_prop_names(op) ==
    IF is_some(op.request_body_schema)
    THEN LET props == schema_get(op.request_body_schema[1], "properties") IN
         IF is_some(props) THEN [i \in 1..Len(props[1]) |-> props[1][i].name] ELSE <<>>
    ELSE <<>>

\* probe_value_cases without the fallback for a target that names nothing
probe_value_cases_known_targets_only(probe, val, is_param, is_body_prop, expectation) ==
    (IF is_param
     THEN <<with_expectation(param_override(probe.target, val), expectation)>> ELSE <<>>)
    \o (IF is_body_prop
        THEN <<with_expectation(body_override(probe.target, val), expectation)>> ELSE <<>>)

\* The body of the loop over a probe's values in collect_probe_cases
probe_value_cases(probe, val, is_param, is_body_prop, expectation) ==
    (IF is_param
     THEN <<with_expectation(param_override(probe.target, val), expectation)>> ELSE <<>>)
    \o (IF is_body_prop
        THEN <<with_expectation(body_override(probe.target, val), expectation)>> ELSE <<>>)
    \o (IF ~is_param /\ ~is_body_prop
        THEN <<with_expectation(param_override(probe.target, val), expectation)>> ELSE <<>>)

collect_probe_cases(op, probes) ==
    LET expectation == from_phase(op, "Probe")
        is_param(probe) ==
            \E i \in 1..Len(op.parameters) : op.parameters[i].name = probe.target
        is_body_prop(probe) == contains(body_prop_names(op), probe.target)
        of_probe(probe) ==
            IF ~matches_operation(probe, op.method, op.path) THEN <<>>
            ELSE LET values == to_json_values(probe) IN
                 Flatten([i \in 1..Len(values) |->
                            probe_value_cases(probe, values[i], is_param(probe),
                                              is_body_prop(probe), expectation)])
    IN Flatten([j \in 1..Len(probes) |-> of_probe(probes[j])])

\* collect_boundary_cases that lets the state of the RNG order its cases
collect_boundary_cases_in_rng_order(op, components_) ==
    LET expectation == from_phase(op, "Boundary")
        of_param(param) ==
            LET bv == boundaries(param.schema, components_) IN
            [i \in 1..Len(bv) |->
                with_expectation(param_override(param.name, bv[i]), expectation)]
        of_prop(pb) ==
            [i \in 1..Len(pb.bv) |->
                with_expectation(body_override(pb.name, pb.bv[i]), expectation)]
        prop_boundaries ==
            IF is_some(op.request_body_schema)
            THEN object_property_boundaries(op.request_body_schema[1], components_)
            ELSE <<>>
        cases ==
            Flatten([j \in 1..Len(op.parameters) |-> of_param(op.parameters[j])])
            \o Flatten([j \in 1..Len(prop_boundaries) |-> of_prop(prop_boundaries[j])])
    IN IF rng % 2 = 1 THEN [i \in 1..Len(cases) |-> cases[Len(cases) + 1 - i]] ELSE cases

collect_boundary_cases(op, components_) ==
    LET expectation == from_phase(op, "Boundary")
        of_param(param) ==
            LET bv == boundaries(param.schema, components_) IN
            [i \in 1..Len(bv) |->
                with_expectation(param_override(param.name, bv[i]), expectation)]
        of_prop(pb) ==
            [i \in 1..Len(pb.bv) |->
                with_expectation(body_override(pb.name, pb.bv[i]), expectation)]
        prop_boundaries ==
            IF is_some(op.request_body_schema)
            THEN object_property_boundaries(op.request_body_schema[1], components_)
            ELSE <<>>
    IN Flatten([j \in 1..Len(op.parameters) |-> of_param(op.parameters[j])])
       \o Flatten([j \in 1..Len(prop_boundaries) |-> of_prop(prop_boundaries[j])])

collect_type_confusion_cases(op, components_) ==
    LET expectation == from_phase(op, "TypeConfusion")
        of_param(param) ==
            LET tc == type_confusion_values(param.schema, components_) IN
            [i \in 1..Len(tc) |->
                with_expectation(param_override(param.name, tc[i]), expectation)]
        of_prop(prop) ==
            LET tc == type_confusion_values(prop.schema, components_) IN
            [i \in 1..Len(tc) |->
                with_expectation(body_override(prop.name, tc[i]), expectation)]
        props ==
            IF is_some(op.request_body_schema)
            THEN resolve_object_properties(op.request_body_schema[1], components_)
            ELSE <<>>
    IN Flatten([j \in 1..Len(op.parameters) |-> of_param(op.parameters[j])])
       \o Flatten([j \in 1..Len(props) |-> of_prop(props[j])])

\* The cases generate_neighborhood_case can return, one per target the RNG
\* can pick; the perturbed value itself is JNull here (it is not inspected).
generate_neighborhood_case(op, components_) ==
    LET expectation == from_phase(op, "Neighborhood")
        props ==
            IF is_some(op.request_body_schema)
            THEN resolve_object_properties(op.request_body_schema[1], components_)
            ELSE <<>>
        param_targets ==
            {param_override(op.parameters[j].name, JNull) :
                j \in {k \in 1..Len(op.parameters) :
                            boundaries(op.parameters[k].schema, components_) # <<>>}}
        prop_targets ==
            {body_override(props[j].name, JNull) :
                j \in {k \in 1..Len(props) :
                            boundaries(props[k].schema, components_) # <<>>}}
        targets == param_targets \cup prop_targets
    IN IF targets = {} THEN {with_expectation(NoOverrides, expectation)}
       ELSE {with_expectation(ov, expectation) : ov \in targets}

-----------------------------------------------------------------------------
(* Executor and accumulator: native/mod.rs *)

\* What the HTTP transport can hand back for one request
TransportError ==
    [kind |-> "error", status_code |-> 0, content_type |-> None,
     headers |-> EmptyMap, body_text |-> "", elapsed |-> 0]

Response(status, ct, body) ==
    [kind |-> "response", status_code |-> status, content_type |-> ct,
     headers |-> EmptyMap, body_text |-> body, elapsed |-> 0]

\* The servers of the runs, each the set of outcomes a send can have: 200
\* with a JSON body or 500 with a text body; 200 or 404 with a JSON body; 200
\* or a failed send; 500 or a failed send
Servers ==
    { { Response(200, Some(<<"application/json">>), "json_ok"),
        Response(500, None, "text") },
      { Response(200, Some(<<"application/json">>), "json_ok"),
        Response(404, Some(<<"application/json">>), "json_ok") },
      { Response(200, Some(<<"application/json">>), "json_ok"),
        TransportError },
      { Response(500, None, "text"),
        TransportError } }

\* serde_json's Display of a value (Value::to_string)
to_string(v) ==
    CASE v.t = "integer" -> ToString(v.n)
      [] v.t = "float" -> v.s
      [] v.t = "string" -> "\"" \o v.s \o "\""
      [] v.t = "boolean" -> IF v.n = 1 THEN "true" ELSE "false"
      [] v.t = "null" -> "null"
      [] v.t \in {"array", "object"} -> v.s

\* value_to_param_string
value_to_param_string(v) == IF v.t = "string" THEN v.s ELSE to_string(v)

\* execute_one, the request it builds: the text put on the wire for each
\* path, query or header parameter that the case overrides (the texts here
\* are all valid header values)
sent_parameters(op, overrides) ==
    LET of_param(param) ==
            IF param.name \in DOMAIN overrides.params
            THEN << [name |-> param.name, location |-> param.location,
                     text |-> value_to_param_string(overrides.params[param.name])] >>
            ELSE <<>>
    IN Flatten([j \in 1..Len(op.parameters) |-> of_param(op.parameters[j])])

\* NativeRunner.response_time_limit of the runs
RunResponseTimeLimit == None

\* execute_one: Err(e) for a transport error, else Ok((interaction, failures));
\* seen is seen_spec_gaps as the call leaves it
execute_one(op, overrides, expectation, seen, outcome, drawn) ==
    IF outcome.kind = "error"
    THEN [ok |-> FALSE, interaction |-> <<>>, failures |-> <<>>, seen |-> seen]
    ELSE LET case_id == drawn
             operation_label == op_label(op)
             check_input ==
                [status_code |-> outcome.status_code, body_text |-> outcome.body_text,
                 content_type |-> outcome.content_type,
                 response_headers |-> outcome.headers, elapsed |-> outcome.elapsed,
                 operation_label |-> operation_label, case_id |-> case_id,
                 expectation |-> expectation, op |-> op,
                 response_time_limit |-> RunResponseTimeLimit]
             checked == run_checks(check_input, seen)
             interaction ==
                [case_id |-> Some(case_id), operation |-> operation_label,
                 status_code |-> outcome.status_code, failures |-> checked.failures]
         IN [ok |-> TRUE, interaction |-> <<interaction>>,
             failures |-> checked.failures, seen |-> checked.seen]

\* FuzzAccumulator::new
new_accumulator ==
    [total |-> 0, success |-> 0, failures |-> <<>>, interactions |-> <<>>,
     errors |-> <<>>, seen_spec_gaps |-> {}]

\* record that reports a failed send as a failed request
record_error_as_failed(a, result, label, phase_label) ==
    LET counted == [a EXCEPT !.total = @ + 1] IN
    IF result.ok
    THEN LET failed == result.failures # <<>> IN
         [acc |-> [counted EXCEPT !.success = IF ~failed THEN @ + 1 ELSE @,
                                  !.failures = @ \o result.failures,
                                  !.interactions = @ \o result.interaction],
          failed |-> failed]
    ELSE [acc |-> [counted EXCEPT !.errors = Append(@, label \o <<": ", phase_label, ": ", "e">>)],
          failed |-> TRUE]

\* record that stores an interaction only when it has findings
record_only_failed_interactions(a, result, label, phase_label) ==
    LET counted == [a EXCEPT !.total = @ + 1] IN
    IF result.ok
    THEN LET failed == result.failures # <<>> IN
         [acc |-> [counted EXCEPT !.success = IF ~failed THEN @ + 1 ELSE @,
                                  !.failures = @ \o result.failures,
                                  !.interactions = IF failed THEN @ \o result.interaction
                                                   ELSE @],
          failed |-> failed]
    ELSE [acc |-> [counted EXCEPT !.errors = Append(@, label \o <<": ", phase_label, ": ", "e">>)],
          failed |-> FALSE]

\* record without the count of a failed send
record_uncounted_error(a, result, label, phase_label) ==
    LET counted == [a EXCEPT !.total = IF result.ok THEN @ + 1 ELSE @] IN
    IF result.ok
    THEN LET failed == result.failures # <<>> IN
         [acc |-> [counted EXCEPT !.success = IF ~failed THEN @ + 1 ELSE @,
                                  !.failures = @ \o result.failures,
                                  !.interactions = @ \o result.interaction],
          failed |-> failed]
    ELSE [acc |-> [counted EXCEPT !.errors = Append(@, label \o <<": ", phase_label, ": ", "e">>)],
          failed |-> FALSE]

\* FuzzAccumulator::record: the accumulator after the call and the value returned
record(a, result, label, phase_label) ==
    LET counted == [a EXCEPT !.total = @ + 1] IN
    IF result.ok
    THEN LET failed == result.failures # <<>> IN
         [acc |-> [counted EXCEPT !.success = IF ~failed THEN @ + 1 ELSE @,
                                  !.failures = @ \o result.failures,
                                  !.interactions = @ \o result.interaction],
          failed |-> failed]
    ELSE [acc |-> [counted EXCEPT !.errors = Append(@, label \o <<": ", phase_label, ": ", "e">>)],
          failed |-> FALSE]

\* record_and_check_stop that never asks to stop
record_and_never_stop(a, result, label, phase_name, op_count, stop) ==
    LET r == record(a, result, label, phase_name) IN
    [acc |-> r.acc, op_count |-> op_count + 1, stop |-> FALSE]

\* record_and_check_stop: accumulator, op_count and the stop decision
record_and_check_stop(a, result, label, phase_name, op_count, stop) ==
    LET r == record(a, result, label, phase_name) IN
    [acc |-> r.acc, op_count |-> op_count + 1, stop |-> stop /\ r.failed]

\* FuzzAccumulator::into_output
into_output(a) ==
    [total |-> a.total, success |-> a.success, failure_count |-> Len(a.failures),
     failures |-> a.failures, interactions |-> a.interactions, errors |-> a.errors]

\* max_examples of the level, scaled to the model
max_examples == MaxExamples

neighborhood_count == max_examples \div 3

random_count == max_examples - neighborhood_count

\* The first MaxCases cases of a deterministic phase
bounded(cases) == SubSeq(cases, 1, Min(Len(cases), MaxCases))

phase_name(ph) ==
    CASE ph = "Probe" -> "probe"
      [] ph = "Boundary" -> "boundary"
      [] ph = "TypeConfusion" -> "type-confusion"
      [] ph = "Neighborhood" -> "neighborhood"
      [] ph = "Random" -> "random"

\* Number of iterations the loop of a phase has for an operation
phase_len(op, ph) ==
    CASE ph = "Probe" -> Len(bounded(collect_probe_cases(op, Probes)))
      [] ph = "Boundary" -> Len(bounded(collect_boundary_cases(op, components)))
      [] ph = "TypeConfusion" -> Len(bounded(collect_type_confusion_cases(op, components)))
      [] ph = "Neighborhood" -> neighborhood_count
      [] ph = "Random" -> random_count

\* The cases the iteration at position p can execute
cases_at(op, ph, i) ==
    CASE ph = "Probe" -> {bounded(collect_probe_cases(op, Probes))[i]}
      [] ph = "Boundary" -> {bounded(collect_boundary_cases(op, components))[i]}
      [] ph = "TypeConfusion" -> {bounded(collect_type_confusion_cases(op, components))[i]}
      [] ph = "Neighborhood" -> generate_neighborhood_case(op, components)
      [] ph = "Random" -> {with_expectation(NoOverrides, from_phase(op, "Random"))}

\* The phase blocks with the boundary block placed before the probe block
run_phases_boundary_first ==
    <<"Boundary", "Probe", "TypeConfusion", "Neighborhood", "Random">>

\* The phase blocks of the body of the 'ops loop, in program order
run_phases == <<"Probe", "Boundary", "TypeConfusion", "Neighborhood", "Random">>

\* The limit test that lets one more request through
limit_reached_late(l, op_count) == is_some(l) /\ op_count > l[1]

\* self.limit.is_some_and(|l| op_count >= l)
limit_reached(l, op_count) == is_some(l) /\ op_count >= l[1]

\* Control flow of the 'ops loop between two requests: leave the phase loops
\* that are exhausted or cut by the limit, start the next operation with
\* op_count = 0; op > NumOps when the loop is over.
RECURSIVE advance(_, _)
advance(p, l) ==
    IF p.op > NumOps THEN p
    ELSE IF p.phase > Len(run_phases)
         THEN advance([op |-> p.op + 1, phase |-> 1, i |-> 0, op_count |-> 0], l)
         ELSE IF p.i < phase_len(operations[p.op], run_phases[p.phase])
                 /\ ~limit_reached(l, p.op_count)
              THEN p
              ELSE advance([p EXCEPT !.phase = @ + 1, !.i = 0], l)

-----------------------------------------------------------------------------
(* Failure classifier: core/convert.rs, core/verdict/failure.rs *)

\* FailureType::default_severity
default_severity(failure_type) ==
    CASE failure_type \in {"ServerError", "Crash", "Timeout"} -> "Critical"
      [] failure_type \in {"SchemaViolation", "RateLimit"} -> "Warning"
      [] failure_type \in {"StatusCodeConformance", "NegativeTestAccepted",
                           "ContentTypeMismatch"} -> "Warning"
      [] failure_type \in {"AuthError", "UnexpectedError"} -> "Error"

classify_type(type_name, status_code) ==
    CASE type_name = "ServerError" -> "ServerError"
      [] type_name = "ResponseTimeExceeded" -> "Timeout"
      [] type_name \in {"MalformedJson", "SchemaViolation"} -> "SchemaViolation"
      [] type_name = "StatusCodeConformance" -> "StatusCodeConformance"
      [] type_name = "NegativeTestAccepted" -> "NegativeTestAccepted"
      [] type_name = "ContentTypeMismatch" -> "ContentTypeMismatch"
      [] OTHER ->
            IF status_code = None THEN "UnexpectedError"
            ELSE LET sc == status_code[1] IN
                 CASE sc \in {408, 504} -> "Timeout"
                   [] sc \notin {408, 504} /\ sc >= 500 /\ sc <= 599 -> "ServerError"
                   [] sc \in {401, 403} -> "AuthError"
                   [] sc = 429 -> "RateLimit"
                   [] OTHER -> "UnexpectedError"

\* map_severity with "critical" mapped like "high"
map_severity_critical_as_high(raw_severity, failure_type) ==
    CASE raw_severity = "critical" -> "Error"
      [] raw_severity = "high" -> "Error"
      [] raw_severity = "medium" -> "Warning"
      [] raw_severity = "low" -> "Info"
      [] OTHER -> default_severity(failure_type)

\* map_severity with "low" mapped like "medium"
map_severity_low_as_medium(raw_severity, failure_type) ==
    CASE raw_severity = "critical" -> "Critical"
      [] raw_severity = "high" -> "Error"
      [] raw_severity = "medium" -> "Warning"
      [] raw_severity = "low" -> "Warning"
      [] OTHER -> default_severity(failure_type)

map_severity(raw_severity, failure_type) ==
    CASE raw_severity = "critical" -> "Critical"
      [] raw_severity = "high" -> "Error"
      [] raw_severity = "medium" -> "Warning"
      [] raw_severity = "low" -> "Info"
      [] OTHER -> default_severity(failure_type)

\* interaction_map.get(cid): the map is collected from the interactions in
\* order, so the last interaction with the id is the one kept
lookup_interaction(interactions, cid) ==
    LET hits == {i \in 1..Len(interactions) : interactions[i].case_id = Some(cid)} IN
    IF hits = {} THEN None
    ELSE Some(interactions[CHOOSE i \in hits : \A j \in hits : j <= i])

convert_one(raw, idx, interactions) ==
    LET failure_type == classify_type(raw.failure_type, raw.status_code)
        interaction ==
            IF is_some(raw.case_id) THEN lookup_interaction(interactions, raw.case_id[1])
            ELSE None
    IN [id |-> raw.case_id,
        status_code |-> IF is_some(raw.status_code) THEN raw.status_code[1]
                        ELSE IF is_some(interaction) THEN interaction[1].status_code
                        ELSE 0,
        failure_type |-> failure_type,
        severity |-> map_severity(raw.severity, failure_type)]

classify_failures(output) ==
    [idx \in 1..Len(output.failures) |->
        convert_one(output.failures[idx], idx, output.interactions)]

-----------------------------------------------------------------------------
(* Verdict policy: core/verdict/severity.rs, core/verdict/policy.rs *)

Severities == <<"Info", "Warning", "Error", "Critical">>

\* derive(PartialOrd, Ord) on Severity: the position of the variant
severity_rank(sev) == CHOOSE i \in 1..Len(Severities) : Severities[i] = sev

\* Severity::exit_code with Critical mapped like Error
severity_exit_code_flat(sev, strict) ==
    CASE sev = "Info" -> 0
      [] sev = "Warning" -> IF strict THEN 1 ELSE 0
      [] sev = "Error" -> 1
      [] sev = "Critical" -> 1

\* Severity::exit_code
severity_exit_code(sev, strict) ==
    CASE sev = "Info" -> 0
      [] sev = "Warning" -> IF strict THEN 1 ELSE 0
      [] sev = "Error" -> 1
      [] sev = "Critical" -> 2

\* VerdictPolicy::default
default_policy ==
    [strict |-> TRUE, ignore_status_codes |-> <<>>, ignore_failure_types |-> <<>>,
     min_severity |-> "Warning"]

\* should_report that also drops the failures at min_severity
should_report_above(policy, failure) ==
    IF contains(policy.ignore_status_codes, failure.status_code) THEN FALSE
    ELSE IF contains(policy.ignore_failure_types, failure.failure_type) THEN FALSE
    ELSE IF severity_rank(failure.severity) <= severity_rank(policy.min_severity) THEN FALSE
    ELSE TRUE

should_report(policy, failure) ==
    IF contains(policy.ignore_status_codes, failure.status_code) THEN FALSE
    ELSE IF contains(policy.ignore_failure_types, failure.failure_type) THEN FALSE
    ELSE IF severity_rank(failure.severity) < severity_rank(policy.min_severity) THEN FALSE
    ELSE TRUE

\* filter that returns nothing as soon as one failure is not to be reported
filter_all_or_nothing(policy, failures) ==
    IF \A i \in 1..Len(failures) : should_report(policy, failures[i])
    THEN failures
    ELSE <<>>

\* VerdictPolicy::filter
RECURSIVE filter(_, _)
filter(policy, failures) ==
    IF failures = <<>> THEN <<>>
    ELSE (IF should_report(policy, Head(failures)) THEN <<Head(failures)>> ELSE <<>>)
         \o filter(policy, Tail(failures))

\* Iterator::max over the mapped exit codes, None for an empty iterator
RECURSIVE iter_max(_)
iter_max(codes) ==
    IF codes = <<>> THEN None
    ELSE LET rest == iter_max(Tail(codes)) IN
         IF rest = None THEN Some(Head(codes)) ELSE Some(Max(Head(codes), rest[1]))

\* VerdictPolicy::exit_code
exit_code(policy, failures) ==
    IF failures = <<>> THEN 0
    ELSE LET m == iter_max([i \in 1..Len(failures) |->
                              severity_exit_code(failures[i].severity, policy.strict)])
         IN IF m = None THEN 0 ELSE m[1]

\* VerdictPolicy::verdict
verdict(policy, failures) ==
    LET code == exit_code(policy, failures) IN
    [status |-> IF code = 0 THEN "Pass" ELSE "Fail", exit_code |-> code]

-----------------------------------------------------------------------------
(* Status code distribution analysis: core/status.rs *)

SuccessCriteria == {"Default", "Require2xx", "AnyResponse"}

\* OperationStats of one operation label: total and the counts detect_pattern reads
operation_stats(interactions, label) ==
    LET mine == SelectSeq(interactions, LAMBDA x : x.operation = label)
        n(P(_)) == Cardinality({i \in 1..Len(mine) : P(mine[i].status_code)})
    IN [operation |-> label, total |-> Len(mine),
        success_count |-> n(is_2xx),
        auth_count |-> n(LAMBDA c : c = 401 \/ c = 403),
        rate_limit_count |-> n(LAMBDA c : c = 429),
        not_found_count |-> n(LAMBDA c : c = 404)]

compute_operation_stats(interactions) ==
    {operation_stats(interactions, label) :
        label \in {interactions[i].operation : i \in 1..Len(interactions)}}

\* Some(kind) or None; threshold = ceil(total * 0.9)
detect_pattern(stats) ==
    LET threshold == (9 * stats.total + 9) \div 10 IN
    IF stats.total = 0 THEN None
    ELSE IF stats.auth_count >= threshold THEN Some("AuthenticationIssue")
    ELSE IF stats.rate_limit_count >= threshold THEN Some("RateLimited")
    ELSE IF stats.not_found_count >= threshold THEN Some("EndpointNotFound")
    ELSE IF stats.success_count = 0 THEN Some("NoSuccessfulResponses")
    ELSE None

\* The warnings of status::analyze; min_rate_pct is effective_min_rate in percent
analyze(interactions, criteria, min_rate_pct) ==
    LET of_op(op) ==
            CASE criteria = "AnyResponse" -> {}
              [] criteria = "Default" ->
                    IF is_some(detect_pattern(op))
                    THEN {[operation |-> op.operation, kind |-> detect_pattern(op)[1],
                           is_failure |-> FALSE]}
                    ELSE {}
              [] criteria = "Require2xx" ->
                    IF is_some(detect_pattern(op))
                    THEN {[operation |-> op.operation, kind |-> detect_pattern(op)[1],
                           is_failure |-> TRUE]}
                    ELSE IF op.success_count * 100 < min_rate_pct * op.total
                         THEN {[operation |-> op.operation, kind |-> "LowSuccessRate",
                                is_failure |-> TRUE]}
                         ELSE {}
    IN UNION {of_op(op) : op \in compute_operation_stats(interactions)}

\* min_success_rate.unwrap_or(0.1), in percent
DefaultMinRatePct == 10

-----------------------------------------------------------------------------
(* The fuzz command: cli/main.rs, after runner.run() has returned Ok(output) *)

\* The exit code and the final verdict (None when the command returns before
\* a verdict is formed)
fuzz_command(output, strict, criteria) ==
    IF output.total = 0 THEN [exit |-> 3, verdict |-> None]
    ELSE LET classified == classify_failures(output) IN
         IF output.failure_count > 0 /\ classified = <<>> THEN [exit |-> 3, verdict |-> None]
         ELSE LET policy == [default_policy EXCEPT !.strict = strict]
                  filtered == filter(policy, classified)
                  warnings == analyze(output.interactions, criteria, DefaultMinRatePct)
                  has_status_failures == \E w \in warnings : w.is_failure
                  v == verdict(policy, filtered)
                  final_exit_code ==
                      IF has_status_failures /\ v.exit_code = 0 THEN 1 ELSE v.exit_code
                  final ==
                      IF final_exit_code # v.exit_code
                      THEN [status |-> "Fail", exit_code |-> final_exit_code]
                      ELSE v
              IN [exit |-> final.exit_code, verdict |-> Some(final)]

-----------------------------------------------------------------------------
(* The run: NativeRunner::run followed by the fuzz command's verdict *)

\* main: Err(e) => ExitCode::from(3)
ErrorExitCode == 3

\* run() that builds the client without looking at the operations
run_setup_without_operations_test(file, builds) ==
    IF ~file.readable THEN Some("Io")
    ELSE IF ~file.parses THEN Some("Parse")
    ELSE IF ~builds THEN Some("Http")
    ELSE None

\* The part of run() before the 'ops loop: Some(error) when it returns Err,
\* None when the loop is entered
run_setup(file, builds) ==
    IF ~file.readable THEN Some("Io")
    ELSE IF ~file.parses THEN Some("Parse")
    ELSE IF file.operations = <<>> THEN Some("Parse")
    ELSE IF ~builds THEN Some("Http")
    ELSE None

Limits == {None} \cup {Some(l) : l \in 0..MaxLimit}

start_pos == [op |-> 1, phase |-> 1, i |-> 0, op_count |-> 0]

Init ==
    /\ pc = "start"
    /\ spec_file \in SpecFiles
    /\ client_builds \in BOOLEAN
    /\ run_error = None
    /\ stop_on_failure \in BOOLEAN
    /\ limit \in Limits
    /\ pos = start_pos
    /\ acc = new_accumulator
    /\ stopped_early = FALSE
    /\ rng = 0
    /\ wire = <<>>
    /\ server \in Servers
    /\ process_exit = None
    /\ final_verdict = None
    /\ cli = None
    /\ call = "none"
    /\ arg = <<>>
    /\ res = <<>>

\* run(): the spec is read and parsed, the client built, the 'ops loop entered
Start ==
    /\ pc = "start"
    /\ run_setup(spec_file, client_builds) = None
    /\ pos' = advance(start_pos, limit)
    /\ pc' = IF pos'.op > NumOps THEN "done" ELSE "run"
    /\ UNCHANGED <<spec_file, client_builds, run_error, stop_on_failure, limit, acc,
                   stopped_early, rng, wire, server, process_exit, final_verdict, cli>>
    /\ UNCHANGED fnVars

\* run() returns Err before the 'ops loop; the fuzz command propagates it with
\* `?` and main exits
RunFails ==
    /\ pc = "start"
    /\ is_some(run_setup(spec_file, client_builds))
    /\ run_error' = run_setup(spec_file, client_builds)
    /\ process_exit' = Some(ErrorExitCode)
    /\ pc' = "exit"
    /\ UNCHANGED <<spec_file, client_builds, stop_on_failure, limit, pos, acc,
                   stopped_early, rng, wire, server, final_verdict, cli>>
    /\ UNCHANGED fnVars

\* One iteration of the loop of phase ph: execute_one, record_and_check_stop,
\* then either break 'ops or go on to the next request
Iterate(ph) ==
    /\ pc = "run"
    /\ pos.op <= NumOps
    /\ run_phases[pos.phase] = ph
    /\ \E outcome \in server :
       \E case \in cases_at(operations[pos.op], ph, pos.i + 1) :
          LET op == operations[pos.op]
              ov == IF case.overrides = NoOverrides THEN None ELSE Some(case.overrides)
              r == execute_one(op, ov, case.expectation, acc.seen_spec_gaps, outcome, rng)
              seen_acc == [acc EXCEPT !.seen_spec_gaps = r.seen]
              rec == record_and_check_stop(seen_acc, r, op_label(op), phase_name(ph),
                                           pos.op_count, stop_on_failure)
              after == [pos EXCEPT !.i = @ + 1, !.op_count = rec.op_count]
          IN /\ acc' = rec.acc
             /\ rng' = IF r.ok THEN rng + 1 ELSE rng
             /\ wire' = Append(wire, [op |-> pos.op, phase |-> ph, answered |-> r.ok])
             /\ IF rec.stop
                THEN /\ stopped_early' = TRUE
                     /\ pos' = after
                     /\ pc' = "done"
                ELSE /\ stopped_early' = stopped_early
                     /\ pos' = advance(after, limit)
                     /\ pc' = IF pos'.op > NumOps THEN "done" ELSE "run"
    /\ UNCHANGED <<spec_file, client_builds, run_error, stop_on_failure, limit, server,
                   process_exit, final_verdict, cli>>
    /\ UNCHANGED fnVars

SendProbe == Iterate("Probe")

SendBoundary == Iterate("Boundary")

SendTypeConfusion == Iterate("TypeConfusion")

SendNeighborhood == Iterate("Neighborhood")

SendRandom == Iterate("Random")

\* The fuzz command classifies, filters, forms the verdict and exits
FuzzCommand ==
    /\ pc = "done"
    /\ \E strict \in BOOLEAN, criteria \in SuccessCriteria :
          LET out == fuzz_command(into_output(acc), strict, criteria) IN
          /\ cli' = Some([strict |-> strict, success_criteria |-> criteria])
          /\ process_exit' = Some(out.exit)
          /\ final_verdict' = out.verdict
    /\ pc' = "exit"
    /\ UNCHANGED <<spec_file, client_builds, run_error, stop_on_failure, limit, pos, acc,
                   stopped_early, rng, wire, server>>
    /\ UNCHANGED fnVars

Next ==
    \/ Start
    \/ RunFails
    \/ SendProbe
    \/ SendBoundary
    \/ SendTypeConfusion
    \/ SendNeighborhood
    \/ SendRandom
    \/ FuzzCommand

Spec == Init /\ [][Next]_vars

-----------------------------------------------------------------------------
(* run_checks applied to one response: the inputs are drawn in the initial *)
(* state, the action stores the findings and the dedup set in res          *)

\* The run variables of a specification that applies one function
idle_run ==
    /\ spec_file = [readable |-> TRUE, parses |-> TRUE, operations |-> Operations,
                    components |-> EmptyMap]
    /\ client_builds = TRUE
    /\ run_error = None
    /\ stop_on_failure = FALSE
    /\ limit = None
    /\ pos = start_pos
    /\ acc = new_accumulator
    /\ stopped_early = FALSE
    /\ rng = 0
    /\ wire = <<>>
    /\ server = {}
    /\ process_exit = None
    /\ final_verdict = None
    /\ cli = None

\* An operation that declares its 500 response: JSON content and an error
\* schema; for 200 and 500 it declares a required integer header, an optional
\* string header and a required header without a schema
FragileOp ==
    [method |-> "PUT", path |-> "/items",
     parameters |-> <<>>,
     request_body_schema |-> None,
     expected_statuses |-> <<200, 500>>,
     response_schemas |-> [s \in {500} |-> "nonempty"],
     response_content_types |-> [s \in {500} |-> <<"application/json">>],
     response_headers |->
        [s \in {200, 500} |->
            << [name |-> "x-rate", required |-> TRUE,
                schema |-> Some([type |-> "integer", maximum |-> Some(10)])],
               [name |-> "x-trace", required |-> FALSE,
                schema |-> Some([type |-> "string", maximum |-> None])],
               [name |-> "x-id", required |-> TRUE, schema |-> None] >>]]

CheckOps == Range(Operations) \cup {FragileOp}

CheckStatuses == {199, 200, 299, 300, 404, 499, 500, 503, 599, 600}

CheckExpectations(op) ==
    {from_phase(op, ph) : ph \in Range(FuzzPhase)} \cup {AnyDeclared(<<200>>)}

CheckContentTypes ==
    {None, Some(<<"application/json">>),
     Some(<<"application/json", ";", " ", "charset=utf-8">>), Some(<<"text/html">>),
     Some(<<" ", "application/json", " ", ";", "charset=utf-8">>),
     Some(<<"text/html", ";", " ", "application/json">>)}

CheckBodies == {"", "text", "json_ok", "json_bad", "text_split"}

\* The response headers: any subset of x-rate, x-trace and x-id, x-rate with
\* a value within the maximum, above it, or not a number
CheckHeaders ==
    {[n \in names |-> IF n = "x-rate" THEN v ELSE "a1"] :
        names \in SUBSET {"x-rate", "x-trace", "x-id"}, v \in {"7", "42", "abc"}}

\* (response_time_limit, elapsed)
CheckTimes == {<<None, 0>>, <<Some(1), 0>>, <<Some(1), 2>>}

AllGapKeys(label, status) ==
    {gap_key(label, status, c) : c \in {"ct_missing", "schema_empty", "schema_missing"}}

CheckInputs(op) ==
    { [input |-> [status_code |-> st, body_text |-> body, content_type |-> ct,
                  response_headers |-> hd, elapsed |-> tm[2],
                  operation_label |-> op_label(op), case_id |-> 0,
                  expectation |-> e, op |-> op, response_time_limit |-> tm[1]],
       seen |-> IF fresh THEN {} ELSE AllGapKeys(op_label(op), st)] :
        e \in CheckExpectations(op),
        st \in CheckStatuses, body \in CheckBodies, ct \in CheckContentTypes,
        hd \in CheckHeaders, tm \in CheckTimes, fresh \in BOOLEAN }

InitChecks ==
    /\ pc = "checks"
    /\ idle_run
    /\ call = "none"
    /\ \E op \in CheckOps : arg \in CheckInputs(op)
    /\ res = <<>>

ApplyRunChecks ==
    /\ pc = "checks"
    /\ call = "none"
    /\ call' = "run_checks"
    /\ res' = run_checks(arg.input, arg.seen)
    /\ UNCHANGED arg
    /\ UNCHANGED runVars

NextChecks == ApplyRunChecks

SpecChecks == InitChecks /\ [][NextChecks]_vars

-----------------------------------------------------------------------------
(* The verdict policy applied to a list of classified failures *)

Policies ==
    [strict : BOOLEAN,
     ignore_status_codes : {<<>>, <<500>>},
     ignore_failure_types : {<<>>, <<"ServerError">>},
     min_severity : Range(Severities)]

ClassifiedFailures ==
    [id : {None}, status_code : {404, 500},
     failure_type : {"ServerError", "UnexpectedError"},
     severity : Range(Severities)]

FailureLists == UNION {[1..n -> ClassifiedFailures] : n \in 0..MaxFailures}

InitPolicy ==
    /\ pc = "policy"
    /\ idle_run
    /\ call = "none"
    /\ arg \in [policy : Policies, failures : FailureLists]
    /\ res = <<>>

ApplyFilter ==
    /\ pc = "policy"
    /\ call = "none"
    /\ call' = "filter"
    /\ res' = filter(arg.policy, arg.failures)
    /\ UNCHANGED arg
    /\ UNCHANGED runVars

ApplyExitCode ==
    /\ pc = "policy"
    /\ call = "none"
    /\ call' = "exit_code"
    /\ res' = exit_code(arg.policy, arg.failures)
    /\ UNCHANGED arg
    /\ UNCHANGED runVars

\* The exit code of the kept failures, as the fuzz command computes it, for
\* the list without its last failure and for the whole list
ApplyExitCodeOfKept ==
    /\ pc = "policy"
    /\ call = "none"
    /\ arg.failures # <<>>
    /\ call' = "exit_code_of_kept"
    /\ res' = [before |-> exit_code(arg.policy,
                                    filter(arg.policy,
                                           SubSeq(arg.failures, 1, Len(arg.failures) - 1))),
               after |-> exit_code(arg.policy, filter(arg.policy, arg.failures))]
    /\ UNCHANGED arg
    /\ UNCHANGED runVars

NextPolicy ==
    \/ ApplyFilter
    \/ ApplyExitCode
    \/ ApplyExitCodeOfKept

SpecPolicy == InitPolicy /\ [][NextPolicy]_vars

-----------------------------------------------------------------------------
(* The classifier followed by the default policy's filter, applied to the  *)
(* raw findings of a runner output                                         *)

RawSeverities == {"critical", "high", "medium", "low", "unknown"}

\* Raw findings as the runner or a report file can hold them; the case id is
\* set from the position in the list
RawFailures ==
    [failure_type : {"ServerError", "StatusSatisfyExpectation"},
     operation : {<<"GET", " ", "/health">>},
     title : {"finding"},
     case_id : {None},
     severity : RawSeverities,
     status_code : {None, Some(404), Some(500)}]

\* The lists of n raw findings
RawFailureLists(n) ==
    {[i \in 1..n |-> [l[i] EXCEPT !.case_id = Some(i)]] : l \in [1..n -> RawFailures]}

RawInteractionLists ==
    {<<>>,
     <<[case_id |-> Some(1), operation |-> <<"GET", " ", "/health">>,
        status_code |-> 503, failures |-> <<>>]>>}

\* The runner outputs with n findings
RunnerOutputs(n) ==
    {[total |-> Len(f) + 1, success |-> 1, failure_count |-> Len(f),
      failures |-> f, interactions |-> x, errors |-> <<>>] :
        f \in RawFailureLists(n), x \in RawInteractionLists}

InitClassify ==
    /\ pc = "classify"
    /\ idle_run
    /\ call = "none"
    /\ \E n \in 0..MaxFailures : arg \in RunnerOutputs(n)
    /\ res = <<>>

ApplyClassifyAndFilter ==
    /\ pc = "classify"
    /\ call = "none"
    /\ call' = "classify_and_filter"
    /\ res' = [classified |-> classify_failures(arg),
               kept |-> filter(default_policy, classify_failures(arg))]
    /\ UNCHANGED arg
    /\ UNCHANGED runVars

NextClassify == ApplyClassifyAndFilter

SpecClassify == InitClassify /\ [][NextClassify]_vars

-----------------------------------------------------------------------------
(* StatusExpectation::from_phase applied to an operation and a phase *)

DeclaredStatuses == {200, 204, 299, 300, 404, 500}

DeclaredLists == UNION {[1..n -> DeclaredStatuses] : n \in 0..MaxDeclared}

\* An operation that declares the given response codes
op_declaring(codes) == [Operations[2] EXCEPT !.expected_statuses = codes]

InitPhases ==
    /\ pc = "phases"
    /\ idle_run
    /\ call = "none"
    /\ arg \in [op : {op_declaring(d) : d \in DeclaredLists}, phase : Range(FuzzPhase)]
    /\ res = <<>>

ApplyFromPhase ==
    /\ pc = "phases"
    /\ call = "none"
    /\ call' = "from_phase"
    /\ res' = from_phase(arg.op, arg.phase)
    /\ UNCHANGED arg
    /\ UNCHANGED runVars

NextPhases == ApplyFromPhase

SpecPhases == InitPhases /\ [][NextPhases]_vars

-----------------------------------------------------------------------------
(* Specification of boundaries: one call on an integer schema with an      *)
(* optional minimum and an optional maximum.                               *)

\* The values a schema's minimum or maximum takes
LimitValues == {-11, -10, 0, 1, 20, 100, 1000, I32_MAX, I64_MIN, I64_MAX}

\* {type: integer}, {type: integer, minimum}, {type: integer, maximum} and
\* {type: integer, minimum, maximum}
IntegerSchemas ==
    {[type |-> "integer"]}
    \cup {[type |-> "integer", minimum |-> lo] : lo \in LimitValues}
    \cup {[type |-> "integer", maximum |-> hi] : hi \in LimitValues}
    \cup {[type |-> "integer", minimum |-> lo, maximum |-> hi] :
             lo \in LimitValues, hi \in LimitValues}

InitBoundaries ==
    /\ pc = "boundaries"
    /\ idle_run
    /\ call = "none"
    /\ arg \in [schema : IntegerSchemas, components : {EmptyMap}]
    /\ res = <<>>

ApplyBoundaries ==
    /\ pc = "boundaries"
    /\ call = "none"
    /\ call' = "boundaries"
    /\ res' = boundaries(arg.schema, arg.components)
    /\ UNCHANGED arg
    /\ UNCHANGED runVars

NextBoundaries == ApplyBoundaries

SpecBoundaries == InitBoundaries /\ [][NextBoundaries]_vars

-----------------------------------------------------------------------------
(* Specification of collect_probe_cases: one call on an operation          *)
(* POST /orders, whose parameters and body properties vary, and a list of  *)
(* probes.                                                                 *)

MaxProbes == 2

\* Parameter lists of the operation: none, quantity, dry, both
ProbeOpParameters ==
    LET param(name, type) ==
            [name |-> name, location |-> "query", schema |-> [type |-> type],
             required |-> FALSE]
    IN {<<>>, <<param("quantity", "integer")>>, <<param("dry", "boolean")>>,
        <<param("dry", "boolean"), param("quantity", "integer")>>}

\* Request bodies of the operation: none, a schema without properties, and
\* object schemas with the properties quantity, note, or both
ProbeOpBodies ==
    LET prop(name, type) == [name |-> name, schema |-> [type |-> type]]
    IN {None, Some([type |-> "object"]),
        Some([type |-> "object", properties |-> <<prop("quantity", "integer")>>]),
        Some([type |-> "object", properties |-> <<prop("note", "null")>>]),
        Some([type |-> "object",
              properties |-> <<prop("note", "null"), prop("quantity", "integer")>>])}

ProbeOps ==
    {[method |-> "POST", path |-> "/orders",
      parameters |-> ps,
      request_body_schema |-> b,
      expected_statuses |-> <<200>>,
      response_schemas |-> EmptyMap,
      response_content_types |-> EmptyMap,
      response_headers |-> EmptyMap] : ps \in ProbeOpParameters, b \in ProbeOpBodies}

\* The value lists of a probe: integers and null; one value of each kind and
\* a float that is not finite; no value
ProbeValues ==
    {[int |-> <<0, -1, 999999>>, float |-> <<>>, string |-> <<>>, bools |-> <<>>,
      null |-> TRUE],
     [int |-> <<7>>, float |-> <<"NaN", "1.5">>, string |-> <<"a">>, bools |-> <<FALSE>>,
      null |-> TRUE],
     [int |-> <<>>, float |-> <<>>, string |-> <<>>, bools |-> <<>>, null |-> FALSE]}

\* Probes for the operation, for another method, and with a label that lacks
\* the space; the target is quantity or a name the operation does not have
ProbeConfigs ==
    {[operation |-> label, target |-> target,
      int |-> v.int, float |-> v.float, string |-> v.string, bools |-> v.bools,
      null |-> v.null] :
        label \in {<<"POST", " ", "/orders">>, <<"GET", " ", "/orders">>,
                   <<"POST", "/orders">>},
        target \in {"quantity", "missing"},
        v \in ProbeValues}

ProbeLists ==
    UNION {[1..n -> ProbeConfigs] : n \in 0..MaxProbes}

InitProbes ==
    /\ pc = "probes"
    /\ idle_run
    /\ call = "none"
    /\ arg \in [op : ProbeOps, probes : ProbeLists]
    /\ res = <<>>

ApplyCollectProbeCases ==
    /\ pc = "probes"
    /\ call = "none"
    /\ call' = "collect_probe_cases"
    /\ res' = collect_probe_cases(arg.op, arg.probes)
    /\ UNCHANGED arg
    /\ UNCHANGED runVars

NextProbes == ApplyCollectProbeCases

SpecProbes == InitProbes /\ [][NextProbes]_vars

-----------------------------------------------------------------------------
(* Specification of the type-confusion values: one call of                 *)
(* type_confusion_values on the schema of a parameter, or one collection   *)
(* of the type-confusion cases of an operation with that parameter and the *)
(* texts execute_one sends for them.                                       *)

JsonTypes == {"string", "integer", "number", "boolean", "array", "object", "null"}

\* components.schemas of the document: an integer schema, a reference to
\* it, and a reference to itself
TypeConfusionComponents ==
    [name \in {"Count", "Alias", "Loop"} |->
        CASE name = "Count" -> [type |-> "integer"]
          [] name = "Alias" -> [r \in {"$ref"} |-> <<"#/components/schemas/", "Count">>]
          [] name = "Loop" -> [r \in {"$ref"} |-> <<"#/components/schemas/", "Loop">>]]

\* Parameter schemas: each type, each type with an enum, no type, and references
ParameterSchemas ==
    {[type |-> t] : t \in JsonTypes}
    \cup {[type |-> t, enum |-> <<JStr("active"), JInt(1)>>] : t \in JsonTypes}
    \cup {[format |-> "int32"]}
    \cup {[r \in {"$ref"} |-> <<prefix, name>>] :
             prefix \in {"#/components/schemas/", "#/definitions/"},
             name \in {"Count", "Alias", "Loop", "Missing"}}

TypeConfusionOps ==
    {[method |-> "GET", path |-> "/items/{id}",
      parameters |-> << [name |-> "id", location |-> location, schema |-> schema,
                         required |-> required] >>,
      request_body_schema |-> None,
      expected_statuses |-> <<200>>,
      response_schemas |-> EmptyMap,
      response_content_types |-> EmptyMap,
      response_headers |-> EmptyMap] :
        location \in {"path", "query", "header"}, schema \in ParameterSchemas,
        required \in BOOLEAN}

InitTypeConfusion ==
    /\ pc = "type_confusion"
    /\ idle_run
    /\ call = "none"
    /\ arg \in [op : TypeConfusionOps, components : {TypeConfusionComponents}]
    /\ res = <<>>

ApplyTypeConfusionValues ==
    /\ pc = "type_confusion"
    /\ call = "none"
    /\ call' = "type_confusion_values"
    /\ res' = type_confusion_values(arg.op.parameters[1].schema, arg.components)
    /\ UNCHANGED arg
    /\ UNCHANGED runVars

\* The TypeConfusion block of the run for the operation: the cases and, for
\* each, what execute_one sends
SendTypeConfusionCases ==
    /\ pc = "type_confusion"
    /\ call = "none"
    /\ call' = "send_type_confusion"
    /\ res' = LET cases == collect_type_confusion_cases(arg.op, arg.components) IN
              [i \in 1..Len(cases) |->
                  [case |-> cases[i], sent |-> sent_parameters(arg.op, cases[i].overrides)]]
    /\ UNCHANGED arg
    /\ UNCHANGED runVars

NextTypeConfusion == ApplyTypeConfusionValues \/ SendTypeConfusionCases

SpecTypeConfusion == InitTypeConfusion /\ [][NextTypeConfusion]_vars

-----------------------------------------------------------------------------
(* Specification of the schema traversals: one call of resolve_refs,       *)
(* generate, boundaries or type_confusion_values on a schema of a document *)
(* whose components hold a chain of references of length MaxHops, a        *)
(* reference to itself, two references to each other, an object and an     *)
(* array that contain themselves, and plain schemas.                       *)

MaxHops == 22

ref_to(name) == [r \in {"$ref"} |-> <<"#/components/schemas/", name>>]

\* The name of the i-th component of the chain
hop_name(i) == "Hop" \o ToString(i)

\* The schema at the end of the chain
ChainEnd == [type |-> "integer", minimum |-> 0, maximum |-> 5]

RefComponents ==
    [name \in {hop_name(i) : i \in 1..MaxHops}
              \cup {"Loop", "Ping", "Pong", "Node", "List", "Status"} |->
        CASE name = "Loop" -> ref_to("Loop")
          [] name = "Ping" -> ref_to("Pong")
          [] name = "Pong" -> ref_to("Ping")
          [] name = "Node" ->
                [type |-> "object",
                 properties |-> << [name |-> "next", schema |-> ref_to("Node")],
                                   [name |-> "weight", schema |-> [type |-> "boolean"]] >>,
                 required |-> <<"next">>]
          [] name = "List" ->
                [type |-> "array", items |-> ref_to("List"), minItems |-> 1, maxItems |-> 1]
          [] name = "Status" -> [type |-> "string", enum |-> <<JStr("active")>>]
          [] OTHER ->
                LET i == CHOOSE k \in 1..MaxHops : name = hop_name(k) IN
                IF i = MaxHops THEN ChainEnd ELSE ref_to(hop_name(i + 1))]

\* The schemas of the calls: a reference to each component, to a component
\* that does not exist, with a prefix that is not #/components/schemas/,
\* and schemas without a reference
RefSchemas ==
    {ref_to(name) : name \in DOMAIN RefComponents \cup {"Missing"}}
    \cup {[r \in {"$ref"} |-> <<"#/definitions/", "Loop">>]}
    \cup {ChainEnd, [type |-> "boolean"], [type |-> "null"],
          [type |-> "object", properties |-> << [name |-> "head", schema |-> ref_to("Node")] >>],
          [items |-> ref_to("Status")]}

InitRefs ==
    /\ pc = "refs"
    /\ idle_run
    /\ call = "none"
    /\ arg \in [schema : RefSchemas, components : {RefComponents}]
    /\ res = <<>>

ApplyResolveRefs ==
    /\ pc = "refs"
    /\ call = "none"
    /\ call' = "resolve_refs"
    /\ res' = resolve_refs(arg.schema, arg.components)
    /\ UNCHANGED arg
    /\ UNCHANGED runVars

ApplyGenerate ==
    /\ pc = "refs"
    /\ call = "none"
    /\ call' = "generate"
    /\ res' = generate(arg.schema, arg.components)
    /\ UNCHANGED arg
    /\ UNCHANGED runVars

ApplyBoundariesOfRef ==
    /\ pc = "refs"
    /\ call = "none"
    /\ call' = "boundaries"
    /\ res' = boundaries(arg.schema, arg.components)
    /\ UNCHANGED arg
    /\ UNCHANGED runVars

ApplyTypeConfusionOfRef ==
    /\ pc = "refs"
    /\ call = "none"
    /\ call' = "type_confusion_values"
    /\ res' = type_confusion_values(arg.schema, arg.components)
    /\ UNCHANGED arg
    /\ UNCHANGED runVars

NextRefs ==
    \/ ApplyResolveRefs
    \/ ApplyGenerate
    \/ ApplyBoundariesOfRef
    \/ ApplyTypeConfusionOfRef

SpecRefs == InitRefs /\ [][NextRefs]_vars

-----------------------------------------------------------------------------
(* Specification of collect_probe_cases on request bodies: one call on an  *)
(* operation POST /orders whose body schema is inline, a reference to a    *)
(* component or absent, with one probe.                                    *)

\* components.schemas of the document: the order object
BodyComponents ==
    [name \in {"Order"} |->
        [type |-> "object",
         properties |-> << [name |-> "note", schema |-> [type |-> "null"]],
                           [name |-> "quantity", schema |-> [type |-> "integer"]] >>]]

\* Request bodies: none, the order object inline, a reference to it, and a
\* reference to a component that does not exist
BodySchemas ==
    {None, Some(BodyComponents["Order"]), Some(ref_to("Order")), Some(ref_to("Missing"))}

BodyOps ==
    {[method |-> "POST", path |-> "/orders",
      parameters |-> ps,
      request_body_schema |-> b,
      expected_statuses |-> <<200>>,
      response_schemas |-> EmptyMap,
      response_content_types |-> EmptyMap,
      response_headers |-> EmptyMap] :
        ps \in {<<>>, << [name |-> "quantity", location |-> "query",
                          schema |-> [type |-> "integer"], required |-> FALSE] >>},
        b \in BodySchemas}

\* One probe, for the operation or for another method, whose target is a
\* property of the order or a name the order does not have
BodyProbeLists ==
    {<< [operation |-> label, target |-> target,
         int |-> v.int, float |-> v.float, string |-> v.string, bools |-> v.bools,
         null |-> v.null] >> :
        label \in {<<"POST", " ", "/orders">>, <<"GET", " ", "/orders">>},
        target \in {"quantity", "note", "missing"},
        v \in ProbeValues}

InitBodyProbes ==
    /\ pc = "probes"
    /\ idle_run
    /\ call = "none"
    /\ arg \in [op : BodyOps, probes : BodyProbeLists, components : {BodyComponents}]
    /\ res = <<>>

SpecBodyProbes == InitBodyProbes /\ [][NextProbes]_vars

-----------------------------------------------------------------------------
(* Specification of the case ids: up to MaxRequests requests of the Random *)
(* phase are executed and recorded, each with the case id the RNG draws,   *)
(* and the output is classified. rng.gen::<u64>() can return any value,    *)
(* also one it has returned before; the draws range over 1..MaxCaseIds.    *)

MaxRequests == 2

MaxCaseIds == 2

\* What a send can bring back
Outcomes ==
    { Response(200, Some(<<"application/json">>), "json_ok"),
      Response(500, None, "text"),
      TransportError }

InitCaseIds ==
    /\ pc = "ids"
    /\ idle_run
    /\ call = "none"
    /\ arg = <<>>
    /\ res = <<>>

\* execute_one with a drawn case id, then FuzzAccumulator::record
ExecuteAndRecord ==
    /\ pc = "ids"
    /\ acc.total < MaxRequests
    /\ \E k \in 1..NumOps, outcome \in Outcomes, drawn \in 1..MaxCaseIds :
          LET op == operations[k]
              r == execute_one(op, None, from_phase(op, "Random"), acc.seen_spec_gaps,
                               outcome, drawn)
              seen_acc == [acc EXCEPT !.seen_spec_gaps = r.seen]
          IN /\ acc' = record(seen_acc, r, op_label(op), phase_name("Random")).acc
             /\ rng' = drawn
    /\ UNCHANGED <<pc, spec_file, client_builds, run_error, stop_on_failure, limit, pos,
                   stopped_early, wire, server, process_exit, final_verdict, cli>>
    /\ UNCHANGED fnVars

\* The fuzz command classifies the output of the run
ClassifyOutput ==
    /\ pc = "ids"
    /\ pc' = "classified"
    /\ call' = "classify_failures"
    /\ res' = classify_failures(into_output(acc))
    /\ UNCHANGED <<spec_file, client_builds, run_error, stop_on_failure, limit, pos, acc,
                   stopped_early, rng, wire, server, process_exit, final_verdict, cli>>
    /\ UNCHANGED arg

NextCaseIds == ExecuteAndRecord \/ ClassifyOutput

SpecCaseIds == InitCaseIds /\ [][NextCaseIds]_vars

-----------------------------------------------------------------------------
(* Properties of the accumulator and of the run *)

\* The recorded interactions that carry at least one finding
with_findings(a) ==
    {i \in 1..Len(a.interactions) : a.interactions[i].failures # <<>>}

\* C1: at every point of a run, the accumulator's total equals its success
\* count plus the number of recorded interactions with at least one finding
\* plus the number of recorded transport errors.
C1_TotalIsSum ==
    acc.total = acc.success + Cardinality(with_findings(acc)) + Len(acc.errors)

\* A run that has recorded a clean interaction, an interaction with findings
\* and a transport error
C1_Witness ==
    /\ acc.success >= 1
    /\ with_findings(acc) # {}
    /\ Len(acc.errors) >= 1
    /\ acc.total >= 3

-----------------------------------------------------------------------------
(* Properties of the fuzz command's exit code and verdict *)

\* The failures the policy of the command keeps, once the command has run
kept_failures ==
    filter([default_policy EXCEPT !.strict = cli[1].strict],
           classify_failures(into_output(acc)))

verdict_is(status) == is_some(final_verdict) /\ final_verdict[1].status = status

\* C2: a run that executed at least one request, recorded at least one
\* transport error and has no failure kept by the policy ends with exit code 3
\* and a Fail verdict.
C2_TransportErrorsExit3 ==
    (pc = "exit" /\ acc.total >= 1 /\ Len(acc.errors) >= 1 /\ kept_failures = <<>>)
        => (process_exit = Some(3) /\ verdict_is("Fail"))

\* C3: the verdict is Pass exactly when at least one request was executed and
\* every executed request was a success (total > 0 and success = total); in
\* every other case it is Fail.
C3_PassIffAllSuccess ==
    pc = "exit" =>
        /\ verdict_is("Pass") <=> (acc.total > 0 /\ acc.success = acc.total)
        /\ (is_some(final_verdict) /\ ~verdict_is("Pass")) => verdict_is("Fail")

-----------------------------------------------------------------------------
(* Properties of the request loop *)

\* A spec-gap finding: the low-severity findings of the three deduplicated checks
is_spec_gap(f) ==
    /\ f.severity = "low"
    /\ f.title \in {"No content types declared in spec", "Response schema is empty",
                    "No response schema defined"}

\* C5: over a whole run, for every key (operation label, status code, check)
\* with check one of ct_missing, schema_empty, schema_missing, at most one
\* low-severity spec-gap finding is emitted.
C5_OneGapFindingPerKey ==
    \A i, j \in 1..Len(acc.failures) :
        LET f == acc.failures[i]
            g == acc.failures[j]
        IN (i < j /\ is_spec_gap(f) /\ is_spec_gap(g))
              => ~(f.operation = g.operation /\ f.status_code = g.status_code
                   /\ f.title = g.title)

\* Two responses of one operation with the same success status: the first
\* carries the spec-gap findings, the second none
C5_Witness ==
    \E i, j \in 1..Len(acc.interactions) :
        LET x == acc.interactions[i]
            y == acc.interactions[j]
        IN /\ i < j
           /\ x.operation = y.operation
           /\ x.status_code = y.status_code
           /\ \E k \in 1..Len(x.failures) : is_spec_gap(x.failures[k])
           /\ y.failures = <<>>

\* C6: with stop_on_failure set, once a recorded result has a finding no
\* further request is sent and nothing more is recorded, so at most one
\* interaction has findings and it is the last result recorded.
C6_StopOnFirstFailure ==
    [][stop_on_failure =>
          /\ with_findings(acc) # {} => (wire' = wire /\ acc' = acc)
          /\ Cardinality(with_findings(acc')) <= 1
          /\ with_findings(acc') # {} =>
                /\ with_findings(acc') = {Len(acc'.interactions)}
                /\ wire'[Len(wire')].answered
                /\ acc'.total = Len(wire')]_vars

\* A run stopped early by a finding that came after other results, with
\* requests of the plan left unsent
C6_Witness ==
    /\ stop_on_failure
    /\ pc = "exit"
    /\ stopped_early
    /\ Len(wire) >= 2
    /\ pos.op = 1
    /\ with_findings(acc) = {Len(acc.interactions)}

\* Number of requests sent for the operation at index o
sent_for(o) == Cardinality({i \in 1..Len(wire) : wire[i].op = o})

\* Number of results recorded under the label of the operation at index o
recorded_for(o) ==
    LET label == op_label(operations[o]) IN
    Cardinality({i \in 1..Len(acc.interactions) : acc.interactions[i].operation = label})
    + Cardinality({i \in 1..Len(acc.errors) : SubSeq(acc.errors[i], 1, Len(label)) = label})

\* C7: with limit L set, the number of requests sent for one operation,
\* transport errors included, over all five phases together never exceeds L.
C7_LimitPerOperation ==
    is_some(limit) =>
        \A o \in 1..NumOps : sent_for(o) <= limit[1] /\ recorded_for(o) <= limit[1]

\* A finished run in which the limit cut both operations short
C7_Witness ==
    /\ pc = "exit"
    /\ is_some(limit)
    /\ limit[1] >= 2
    /\ NumOps = 2
    /\ \A o \in 1..NumOps : sent_for(o) = limit[1] /\ recorded_for(o) = limit[1]
    /\ Len(acc.errors) >= 1

\* Probe < Boundary < TypeConfusion < Neighborhood < Random
phase_rank(ph) ==
    CASE ph = "Probe" -> 1
      [] ph = "Boundary" -> 2
      [] ph = "TypeConfusion" -> 3
      [] ph = "Neighborhood" -> 4
      [] ph = "Random" -> 5

\* The sends that were answered, in send order
answered_sends == SelectSeq(wire, LAMBDA w : w.answered)

\* C8: within an operation the phases run in the order Probe, Boundary,
\* TypeConfusion, Neighborhood, Random; operations are processed in the order
\* of the operation list; each result is recorded before the next request is
\* sent, so the stored interactions are in send order.
C8_PhaseAndSendOrder ==
    /\ \A i, j \in 1..Len(wire) :
          i < j => \/ wire[i].op < wire[j].op
                   \/ /\ wire[i].op = wire[j].op
                      /\ phase_rank(wire[i].phase) <= phase_rank(wire[j].phase)
    /\ acc.total = Len(wire)
    /\ Len(acc.interactions) = Len(answered_sends)
    /\ \A k \in 1..Len(acc.interactions) :
          /\ acc.interactions[k].operation = op_label(operations[answered_sends[k].op])
          /\ acc.interactions[k].case_id = Some(k - 1)

\* A finished run that went through the five phases of the first operation
\* and on to the second, with a failed send between answered ones
C8_Witness ==
    /\ pc = "exit"
    /\ \A r \in 1..5 : \E i \in 1..Len(wire) : wire[i].op = 1 /\ phase_rank(wire[i].phase) = r
    /\ \E i \in 1..Len(wire) : wire[i].op = 2
    /\ \E i, j, k \in 1..Len(wire) :
          i < j /\ j < k /\ wire[i].answered /\ ~wire[j].answered /\ wire[k].answered

-----------------------------------------------------------------------------
(* Properties of run_checks *)

findings_of(kind) == SelectSeq(res.failures, LAMBDA f : f.failure_type = kind)

\* C4: for a response status in 500..599, under every status expectation and
\* for any operation, headers and body, run_checks emits exactly one
\* ServerError finding, of severity critical, and no
\* StatusSatisfyExpectation finding.
C4_ServerErrorOnly ==
    (call = "run_checks" /\ arg.input.status_code >= 500 /\ arg.input.status_code <= 599)
        => /\ Len(findings_of("ServerError")) = 1
           /\ findings_of("ServerError")[1].severity = "critical"
           /\ findings_of("StatusSatisfyExpectation") = <<>>

\* A 5xx response the expectation does not list, checked for an operation
\* with declared response headers, so that other checks report next to the
\* server error
C4_Witness ==
    /\ call = "run_checks"
    /\ arg.input.status_code = 503
    /\ arg.input.expectation.kind = "AnyDeclared"
    /\ ~contains(arg.input.expectation.codes, 503)
    /\ Len(findings_of("ServerError")) = 1
    /\ \E st \in {500, 599} : contains(arg.input.expectation.codes, st)

-----------------------------------------------------------------------------
(* Properties of the verdict policy *)

\* The exit code table of the severities
table_exit_code(sev, strict) ==
    CASE sev = "Info" -> 0
      [] sev = "Warning" -> IF strict THEN 1 ELSE 0
      [] sev = "Error" -> 1
      [] sev = "Critical" -> 2

\* C9: VerdictPolicy::exit_code returns the maximum, over the given failures,
\* of the severity's exit code under the policy's strict flag (Info 0, Warning
\* 1 if strict else 0, Error 1, Critical 2), and 0 for an empty list.
C9_ExitCodeIsMax ==
    call = "exit_code" =>
        LET codes == {table_exit_code(arg.failures[i].severity, arg.policy.strict) :
                          i \in 1..Len(arg.failures)}
        IN IF codes = {} THEN res = 0
           ELSE res \in codes /\ \A c \in codes : c <= res

\* A list mixing a Warning under a lenient policy with an Error: the result
\* is the Error's code, not the first or the last element's
C9_Witness ==
    /\ call = "exit_code"
    /\ ~arg.policy.strict
    /\ Len(arg.failures) = 2
    /\ arg.failures[1].severity = "Error"
    /\ arg.failures[2].severity = "Warning"
    /\ res = 1

\* The position of a severity in Info < Warning < Error < Critical
table_rank(sev) ==
    CASE sev = "Info" -> 0
      [] sev = "Warning" -> 1
      [] sev = "Error" -> 2
      [] sev = "Critical" -> 3

\* C10: VerdictPolicy::filter returns exactly the failures, in their original
\* order, whose status code is not in ignore_status_codes, whose type is not
\* in ignore_failure_types and whose severity is at least min_severity.
C10_FilterKeeps ==
    call = "filter" =>
        res = SelectSeq(arg.failures,
                        LAMBDA f :
                            /\ f.status_code \notin Range(arg.policy.ignore_status_codes)
                            /\ f.failure_type \notin Range(arg.policy.ignore_failure_types)
                            /\ table_rank(f.severity) >= table_rank(arg.policy.min_severity))

\* A list of two different kept failures around none dropped, and one where
\* a failure is dropped for its severity alone
C10_Witness ==
    /\ call = "filter"
    /\ arg.policy.ignore_status_codes = <<500>>
    /\ arg.policy.ignore_failure_types = <<"ServerError">>
    /\ arg.policy.min_severity = "Error"
    /\ Len(arg.failures) = 2
    /\ arg.failures[1].severity = "Warning"
    /\ arg.failures[1].status_code = 404
    /\ arg.failures[1].failure_type = "UnexpectedError"
    /\ arg.failures[2].severity = "Error"
    /\ arg.failures[2].status_code = 404
    /\ arg.failures[2].failure_type = "UnexpectedError"
    /\ res = <<arg.failures[2]>>

\* C11: for every policy and every list of classified failures, adding a
\* failure of severity Critical never lowers the exit code of the kept
\* failures: exit_code(filter(F + [c])) >= exit_code(filter(F)).
C11_CriticalNeverLowers ==
    (call = "exit_code_of_kept" /\ arg.failures[Len(arg.failures)].severity = "Critical")
        => res.after >= res.before

\* A list with a kept Error to which a kept Critical is added, and the exit
\* code rises from 1 to 2
C11_Witness ==
    /\ call = "exit_code_of_kept"
    /\ Len(arg.failures) >= 2
    /\ arg.failures[Len(arg.failures)].severity = "Critical"
    /\ res.before = 1
    /\ res.after = 2

-----------------------------------------------------------------------------
(* Properties of the classifier *)

\* The positions of the raw findings whose severity string is "critical"
raw_critical == {i \in 1..Len(arg.failures) : arg.failures[i].severity = "critical"}

\* C12: every raw finding whose severity string is "critical" is classified
\* to Critical by classify_failures and kept by the default policy's filter,
\* so as many critical findings come out of the filter as went into the
\* classifier; when every severity string is a known one, these are all the
\* Critical failures the filter returns.
C12_CriticalRoundTrip ==
    call = "classify_and_filter" =>
        LET ids == {arg.failures[i].case_id : i \in raw_critical}
            kept_of == {k \in 1..Len(res.kept) : res.kept[k].id \in ids}
            kept_critical == {k \in 1..Len(res.kept) : res.kept[k].severity = "Critical"}
        IN /\ \A i \in raw_critical : res.classified[i].severity = "Critical"
           /\ \A k \in kept_of : res.kept[k].severity = "Critical"
           /\ Cardinality(kept_of) = Cardinality(raw_critical)
           /\ (\A i \in 1..Len(arg.failures) : arg.failures[i].severity # "unknown")
                 => kept_critical = kept_of

\* A critical finding without a status code of its own next to a low one the
\* filter drops
C12_Witness ==
    /\ call = "classify_and_filter"
    /\ Len(arg.failures) = 2
    /\ arg.failures[1].severity = "low"
    /\ arg.failures[2].severity = "critical"
    /\ arg.failures[2].status_code = None
    /\ Len(res.kept) = 1
    /\ res.kept[1].severity = "Critical"

-----------------------------------------------------------------------------
(* Properties of the status expectation *)

\* C13: from_phase yields, for Random, SuccessExpected of the declared codes
\* in 200..299, or of [200] if there is none; for Probe, Boundary and
\* Neighborhood, AnyDeclared of all declared codes, or of [200] if none is
\* declared; for TypeConfusion, Rejection.
C13_FromPhase ==
    call = "from_phase" =>
        LET declared == arg.op.expected_statuses
            success == SelectSeq(declared, LAMBDA c : 200 <= c /\ c <= 299)
        IN CASE arg.phase = "Random" ->
                    /\ res.kind = "SuccessExpected"
                    /\ res.codes = IF success = <<>> THEN <<200>> ELSE success
             [] arg.phase \in {"Probe", "Boundary", "Neighborhood"} ->
                    /\ res.kind = "AnyDeclared"
                    /\ res.codes = IF declared = <<>> THEN <<200>> ELSE declared
             [] arg.phase = "TypeConfusion" -> res.kind = "Rejection"

\* Random for an operation that declares a 2xx code after a non-2xx one
C13_Witness ==
    /\ call = "from_phase"
    /\ arg.phase = "Random"
    /\ arg.op.expected_statuses = <<404, 204>>
    /\ res.codes = <<204>>

-----------------------------------------------------------------------------
(* Properties of the status, header and body checks *)

\* C14: for a status outside 500..599 the status check emits exactly one
\* StatusSatisfyExpectation finding when the expectation is SuccessExpected(E)
\* and the status is not in E (medium if the status is 2xx, else high), when
\* it is AnyDeclared(D) and the status is not in D (medium), and when it is
\* Rejection and 200 <= status < 300 (medium); in every other case none.
C14_StatusFindings ==
    (call = "run_checks" /\ ~(arg.input.status_code >= 500 /\ arg.input.status_code <= 599))
        => LET st == arg.input.status_code
               e == arg.input.expectation
               two_xx == 200 <= st /\ st < 300
               found == findings_of("StatusSatisfyExpectation")
               expected_severity ==
                   CASE e.kind = "SuccessExpected" /\ st \notin Range(e.codes) ->
                            IF two_xx THEN Some("medium") ELSE Some("high")
                     [] e.kind = "AnyDeclared" /\ st \notin Range(e.codes) -> Some("medium")
                     [] e.kind = "Rejection" /\ two_xx -> Some("medium")
                     [] OTHER -> None
           IN IF expected_severity = None THEN found = <<>>
              ELSE Len(found) = 1 /\ found[1].severity = expected_severity[1]

\* A valid input answered 404 and a valid input answered with an undeclared
\* 2xx code
C14_Witness ==
    /\ call = "run_checks"
    /\ arg.input.expectation = [kind |-> "SuccessExpected", codes |-> <<200>>]
    /\ arg.input.status_code \in {299, 404}
    /\ Len(findings_of("StatusSatisfyExpectation")) = 1

\* C15: a case with the Rejection expectation passes the status checks (no
\* ServerError and no StatusSatisfyExpectation finding) only if the response
\* status is 4xx.
C15_RejectionNeeds4xx ==
    (/\ call = "run_checks"
     /\ arg.input.expectation.kind = "Rejection"
     /\ findings_of("ServerError") = <<>>
     /\ findings_of("StatusSatisfyExpectation") = <<>>)
        => (400 <= arg.input.status_code /\ arg.input.status_code <= 499)

\* The findings in res of the given type and with one of the given titles
findings_titled(kind, titles) ==
    SelectSeq(res.failures, LAMBDA f : f.failure_type = kind /\ f.title \in titles)

ContentTypeTitles ==
    {"Unexpected Content-Type", "Missing Content-Type header",
     "No content types declared in spec"}

\* The text of a Content-Type value before its first ';', without the spaces
\* at its ends
claimed_media_type(ct) ==
    LET semis == {i \in 1..Len(ct) : ct[i] = ";"}
        cut == IF semis = {} THEN Len(ct) + 1 ELSE CHOOSE i \in semis : \A j \in semis : i <= j
        kept == {i \in 1..(cut - 1) : ct[i] # " "}
    IN IF kept = {} THEN <<>>
       ELSE SubSeq(ct, CHOOSE i \in kept : \A j \in kept : i <= j,
                       CHOOSE i \in kept : \A j \in kept : i >= j)

\* C18: when the operation declares a non-empty content-type list for the
\* response status, an absent Content-Type header yields exactly one medium
\* 'missing Content-Type' finding, a present header whose media type (the text
\* before the first ';', trimmed) equals a declared type yields no
\* Content-Type finding, and any other present header yields exactly one
\* medium mismatch finding.
C18_ContentType ==
    (/\ call = "run_checks"
     /\ arg.input.status_code \in DOMAIN arg.input.op.response_content_types
     /\ arg.input.op.response_content_types[arg.input.status_code] # <<>>)
        => LET declared == arg.input.op.response_content_types[arg.input.status_code]
               ct == arg.input.content_type
               found == findings_titled("HeaderSatisfyExpectation", ContentTypeTitles)
           IN IF ct = <<>>
              THEN /\ Len(found) = 1
                   /\ found[1].title = "Missing Content-Type header"
                   /\ found[1].severity = "medium"
              ELSE IF \E i \in DOMAIN declared : claimed_media_type(ct[1]) = <<declared[i]>>
                   THEN found = <<>>
                   ELSE /\ Len(found) = 1
                        /\ found[1].title = "Unexpected Content-Type"
                        /\ found[1].severity = "medium"

\* "application/json; charset=utf-8" against a declared application/json: no
\* Content-Type finding
C18_Witness ==
    /\ call = "run_checks"
    /\ arg.input.op.method = "GET"
    /\ arg.input.status_code = 404
    /\ arg.input.content_type = << <<"application/json", ";", " ", "charset=utf-8">> >>
    /\ findings_titled("HeaderSatisfyExpectation", ContentTypeTitles) = <<>>

\* C19: for each response header declared for the response status with
\* required = true that is absent from the response, exactly one
\* HeaderSatisfyExpectation finding of severity medium, classified Warning, is
\* emitted and its schema is not validated; an absent header declared with
\* required = false yields no finding. Stated by counting: the 'required
\* header missing' findings are as many as the absent required headers, and
\* the validation findings at most as many as the present headers that
\* declare a schema.
C19_RequiredHeaders ==
    call = "run_checks"
        => LET st == arg.input.status_code
               declared == IF st \in DOMAIN arg.input.op.response_headers
                           THEN arg.input.op.response_headers[st] ELSE <<>>
               absent(i) == declared[i].name \notin DOMAIN arg.input.response_headers
               missing == findings_titled("HeaderSatisfyExpectation",
                                          {"Required response header missing"})
               validated == findings_titled("HeaderSatisfyExpectation",
                                            {"Response header type mismatch",
                                             "Response header schema violation"})
           IN /\ Len(missing)
                    = Cardinality({i \in DOMAIN declared : declared[i].required /\ absent(i)})
              /\ \A i \in DOMAIN missing :
                    /\ missing[i].severity = "medium"
                    /\ missing[i].status_code = <<st>>
                    /\ convert_one(missing[i], i, <<>>).severity = "Warning"
              /\ Len(validated)
                    <= Cardinality({i \in DOMAIN declared :
                                       ~absent(i) /\ declared[i].schema # <<>>})

\* Both required headers and the optional header are absent: two findings
C19_Witness ==
    /\ call = "run_checks"
    /\ arg.input.op.method = "PUT"
    /\ arg.input.status_code = 200
    /\ arg.input.response_headers = EmptyMap
    /\ Len(findings_titled("HeaderSatisfyExpectation",
                           {"Required response header missing"})) = 2
    /\ Len(findings_of("HeaderSatisfyExpectation")) = 3

\* C20: when the media type of the response's Content-Type is
\* application/json and the body is non-empty and not parseable as JSON, the
\* body check emits exactly one BodySatisfyExpectation finding, of severity
\* high, and nothing else for the body: no schema-validation finding, no
\* spec-gap finding, and no spec-gap key added to the dedup set.
C20_MimeCheckFirst ==
    (/\ call = "run_checks"
     /\ arg.input.content_type # <<>>
     /\ claimed_media_type(arg.input.content_type[1]) = <<"application/json">>
     /\ arg.input.body_text \notin {"", "json_ok", "json_bad"})
        => LET found == findings_of("BodySatisfyExpectation") IN
           /\ ~res.panicked
           /\ Len(found) = 1
           /\ found[1].severity = "high"
           /\ found[1].title = "Response body is not valid JSON"
           /\ \A c \in {"schema_empty", "schema_missing"} :
                 LET key == arg.input.operation_label
                                \o <<":", ToString(arg.input.status_code), ":", c>>
                 IN key \in res.seen => key \in arg.seen

-----------------------------------------------------------------------------
(* Properties of the data generator *)

\* C16: for an integer schema with minimum m and maximum M, boundaries(schema)
\* contains m-1, m, m+1, M-1, M and M+1 (for minimum 0 and maximum 100:
\* -1, 0, 1, 99, 100 and 101). Stated for the limits whose neighbours are
\* representable integers.
C16_LimitNeighbours ==
    (/\ call = "boundaries"
     /\ "minimum" \in DOMAIN arg.schema /\ "maximum" \in DOMAIN arg.schema
     /\ {arg.schema.minimum, arg.schema.maximum} \cap {I64_MIN, I64_MAX} = {})
        => LET m == arg.schema.minimum
               M == arg.schema.maximum
           IN \A v \in {m - 1, m, m + 1, M - 1, M, M + 1} : JInt(v) \in Range(res)

-----------------------------------------------------------------------------
(* Properties of the probe phase *)

\* The values of a probe in the order int, float, string, bool, null; a
\* float that is not finite has no JSON value
flattened_values(probe) ==
    LET finite == SelectSeq(probe.float, LAMBDA f : f \notin {"NaN", "inf", "-inf"})
    IN [i \in 1..Len(probe.int) |-> [t |-> "integer", n |-> probe.int[i], s |-> ""]]
       \o [i \in 1..Len(finite) |-> [t |-> "float", n |-> 0, s |-> finite[i]]]
       \o [i \in 1..Len(probe.string) |-> [t |-> "string", n |-> 0, s |-> probe.string[i]]]
       \o [i \in 1..Len(probe.bools) |->
              [t |-> "boolean", n |-> IF probe.bools[i] THEN 1 ELSE 0, s |-> ""]]
       \o (IF probe.null THEN << [t |-> "null", n |-> 0, s |-> ""] >> ELSE <<>>)

\* The overrides the probes of a list call for, in order
RECURSIVE expected_probe_overrides(_, _)
expected_probe_overrides(op, probes) ==
    IF probes = <<>> THEN <<>>
    ELSE LET probe == Head(probes)
             names_param == probe.target \in {op.parameters[i].name : i \in DOMAIN op.parameters}
             names_body ==
                 /\ op.request_body_schema # <<>>
                 /\ "properties" \in DOMAIN op.request_body_schema[1]
                 /\ \E i \in DOMAIN op.request_body_schema[1].properties :
                        op.request_body_schema[1].properties[i].name = probe.target
             as_param(v) == [params |-> (probe.target :> v), body_props |-> << >>]
             as_body(v) == [params |-> << >>, body_props |-> (probe.target :> v)]
             of_value(v) ==
                 CASE names_param /\ names_body -> <<as_param(v), as_body(v)>>
                   [] names_body /\ ~names_param -> <<as_body(v)>>
                   [] OTHER -> <<as_param(v)>>
             values == flattened_values(probe)
         IN (IF probe.operation = <<op.method, " ", op.path>>
             THEN Flatten([i \in 1..Len(values) |-> of_value(values[i])])
             ELSE <<>>)
            \o expected_probe_overrides(op, Tail(probes))

\* C17: collect_probe_cases emits, for each probe whose operation string is
\* "{METHOD} {path}" of the operation and in the order of its flattened values,
\* one parameter override per value if the target names only a parameter or
\* names nothing, one body-property override per value if it names only a body
\* property, and both if it names both; other probes emit nothing. The probe
\* int=[0,-1,999999], null=true on the body property quantity gives exactly
\* the 4 body overrides 0, -1, 999999, null.
C17_ProbeCases ==
    call = "collect_probe_cases"
        => /\ [i \in 1..Len(res) |-> res[i].overrides]
                = expected_probe_overrides(arg.op, arg.probes)
           /\ (/\ arg.probes = << [operation |-> <<"POST", " ", "/orders">>,
                                    target |-> "quantity", int |-> <<0, -1, 999999>>,
                                    float |-> <<>>, string |-> <<>>, bools |-> <<>>,
                                    null |-> TRUE] >>
               /\ arg.op.parameters = <<>>
               /\ arg.op.request_body_schema # <<>>
               /\ "properties" \in DOMAIN arg.op.request_body_schema[1])
                  => \/ /\ Len(arg.op.request_body_schema[1].properties) = 1
                        /\ arg.op.request_body_schema[1].properties[1].name = "note"
                     \/ /\ Len(res) = 4
                        /\ \A i \in 1..4 :
                              /\ res[i].overrides.params = << >>
                              /\ DOMAIN res[i].overrides.body_props = {"quantity"}
                        /\ [i \in 1..4 |-> res[i].overrides.body_props["quantity"]]
                              = << [t |-> "integer", n |-> 0, s |-> ""],
                                   [t |-> "integer", n |-> -1, s |-> ""],
                                   [t |-> "integer", n |-> 999999, s |-> ""],
                                   [t |-> "null", n |-> 0, s |-> ""] >>

\* Two probes for the operation, the first naming a parameter and a body
\* property, the second naming nothing, with five and four values
C17_Witness ==
    /\ call = "collect_probe_cases"
    /\ Len(arg.probes) = 2
    /\ arg.probes[1].target = "quantity" /\ arg.probes[2].target = "missing"
    /\ Len(arg.op.parameters) = 2
    /\ arg.op.request_body_schema # <<>>
    /\ Len(res) = 14

-----------------------------------------------------------------------------
(* Properties of whole runs *)

\* C21: a run against one operation without parameters and without a request
\* body that declares 200 with application/json and the empty schema {}, in
\* which every response is 200 application/json with a JSON body, produces
\* exactly one finding (severity low / Info, 'Response schema is empty'), and
\* the verdict is Pass with exit code 0.
C21_EmptySchemaRun ==
    (/\ pc = "exit"
     /\ run_error = <<>>
     /\ Len(operations) = 1
     /\ operations[1].parameters = <<>>
     /\ operations[1].request_body_schema = <<>>
     /\ operations[1].expected_statuses = <<200>>
     /\ operations[1].response_schemas = [s \in {200} |-> "empty"]
     /\ operations[1].response_content_types = [s \in {200} |-> <<"application/json">>]
     /\ acc.total >= 1
     /\ acc.errors = <<>>
     /\ \A i \in DOMAIN acc.interactions : acc.interactions[i].status_code = 200)
        => /\ Len(acc.failures) = 1
           /\ acc.failures[1].severity = "low"
           /\ acc.failures[1].title = "Response schema is empty"
           /\ classify_failures(into_output(acc))[1].severity = "Info"
           /\ kept_failures = <<>>
           /\ process_exit = <<0>>
           /\ final_verdict = << [status |-> "Pass", exit_code |-> 0] >>

\* Three responses 200 to the quiet operation under the strict policy: one
\* finding, exit 0
C21_Witness ==
    /\ pc = "exit"
    /\ Len(operations) = 1
    /\ acc.total = 3
    /\ Len(acc.interactions) = 3
    /\ \A i \in DOMAIN acc.interactions : acc.interactions[i].status_code = 200
    /\ Len(acc.failures) = 1
    /\ cli # <<>> /\ cli[1].strict
    /\ process_exit = <<0>>

\* C24: if the spec file is unreadable (Io), is not valid JSON/YAML or yields
\* no operation (Parse), or the HTTP client cannot be built (Http), run
\* returns the error without sending any request and the process exits with
\* code 3.
C24_SetupErrors ==
    LET expected ==
            CASE ~spec_file.readable -> <<"Io">>
              [] spec_file.readable /\ ~spec_file.parses -> <<"Parse">>
              [] spec_file.readable /\ spec_file.parses /\ spec_file.operations = <<>> ->
                    <<"Parse">>
              [] OTHER -> IF ~client_builds THEN <<"Http">> ELSE <<>>
    IN /\ expected # <<>> => (wire = <<>> /\ acc.total = 0 /\ pc \in {"start", "exit"})
       /\ pc = "exit" =>
             /\ run_error = expected
             /\ expected # <<>> => (process_exit = <<3>> /\ final_verdict = <<>>)

\* The run of a valid document with operations ended because the client
\* could not be built
C24_Witness ==
    /\ pc = "exit"
    /\ spec_file.operations # <<>>
    /\ ~client_builds
    /\ run_error = <<"Http">>
    /\ process_exit = <<3>>
    /\ wire = <<>>

\* C25: recording a transport error increments total by 1, appends exactly
\* one entry to errors and leaves success, failures, interactions and
\* seen_spec_gaps unchanged; it never triggers stop_on_failure: the run goes on
\* with the next case, and ends only when no case is left.
C25_TransportErrorFrame ==
    [][(Len(wire') = Len(wire) + 1 /\ ~wire'[Len(wire')].answered) =>
          /\ acc'.total = acc.total + 1
          /\ Len(acc'.errors) = Len(acc.errors) + 1
          /\ SubSeq(acc'.errors, 1, Len(acc.errors)) = acc.errors
          /\ acc'.success = acc.success
          /\ acc'.failures = acc.failures
          /\ acc'.interactions = acc.interactions
          /\ acc'.seen_spec_gaps = acc.seen_spec_gaps
          /\ stopped_early' = stopped_early
          /\ ~stopped_early'
          /\ pc' = "done" => pos'.op > NumOps]_vars

\* With stop_on_failure set, a failed send was followed by another request
C25_Witness ==
    /\ stop_on_failure
    /\ \E i \in 1..Len(wire) : i < Len(wire) /\ ~wire[i].answered
    /\ Len(acc.errors) >= 1
    /\ acc.total = Len(wire)

\* C30: after any sequence of recorded results, the interactions and the
\* errors together are as many as total, and failure_count is the number of
\* failures: every received response, with or without findings, is stored as
\* one interaction, every transport error as one error string.
C30_EveryResultStored ==
    /\ Len(acc.interactions) + Len(acc.errors) = acc.total
    /\ into_output(acc).failure_count = Len(into_output(acc).failures)
    /\ into_output(acc).total
          = Len(into_output(acc).interactions) + Len(into_output(acc).errors)
    /\ Len(acc.interactions) = Cardinality({i \in 1..Len(wire) : wire[i].answered})
    /\ Len(acc.errors) = Cardinality({i \in 1..Len(wire) : ~wire[i].answered})

\* A clean response, a response with findings and a failed send were recorded
C30_Witness ==
    /\ \E i \in DOMAIN acc.interactions : acc.interactions[i].failures = <<>>
    /\ \E i \in DOMAIN acc.interactions : acc.interactions[i].failures # <<>>
    /\ Len(acc.errors) >= 1
    /\ acc.total = 3

-----------------------------------------------------------------------------
(* Properties of the type-confusion values *)

\* The JSON type of a value is the declared one (an integer is a number)
has_json_type(v, declared) ==
    CASE declared = "number" -> v.t \in {"integer", "float"}
      [] OTHER -> v.t = declared

\* C26: for a schema with a declared type among string, integer, number,
\* boolean, array, object and null and without enum, no value returned by
\* type_confusion_values has the declared JSON type, an integer counting as a
\* number, and the float 3.14 is returned for an integer schema; for a schema
\* with enum the result is empty.
C26_NoValueOfDeclaredType ==
    call = "type_confusion_values" =>
        LET schema == arg.op.parameters[1].schema IN
        /\ (/\ "$ref" \notin DOMAIN schema
            /\ "enum" \notin DOMAIN schema
            /\ type_str(schema) \in JsonTypes)
           => /\ res # <<>>
              /\ \A i \in 1..Len(res) : ~has_json_type(res[i], schema.type)
              /\ (schema.type = "integer" => contains(res, JFloat("3.14")))
        /\ ("$ref" \notin DOMAIN schema /\ "enum" \in DOMAIN schema) => res = <<>>

\* A call on a number schema without enum that returned the strings, the
\* booleans, null and the containers
C26_Witness ==
    /\ call = "type_confusion_values"
    /\ arg.op.parameters[1].schema = [type |-> "number"]
    /\ Len(res) = 9
    /\ contains(res, JStr("123"))

\* The text of a parameter reads as a value of the declared type
parses_as(text, declared) ==
    CASE declared = "string" -> TRUE
      [] declared = "integer" -> text \in {ToString(n) : n \in -200..200}
      [] declared = "number" -> text \in {ToString(n) : n \in -200..200} \cup {"3.14"}
      [] declared = "boolean" -> text \in {"true", "false"}
      [] declared = "null" -> text = "null"
      [] declared = "array" -> text \in {"[]", "[1]"}
      [] declared = "object" -> text = "{}"

\* C28: every TypeConfusion case that targets a path, query or header
\* parameter expects a rejection and puts on the wire a text that does not
\* parse as the parameter's declared type: no integer parameter is sent the
\* text 123 and no string parameter is sent a text that is a valid string.
C28_WireValueNotOfDeclaredType ==
    call = "send_type_confusion" =>
        LET param == arg.op.parameters[1] IN
        ("$ref" \notin DOMAIN param.schema /\ type_str(param.schema) \in JsonTypes)
        => \A i \in 1..Len(res) :
              /\ res[i].case.expectation = Rejection
              /\ \A j \in 1..Len(res[i].sent) :
                    ~parses_as(res[i].sent[j].text, param.schema.type)

-----------------------------------------------------------------------------
(* Properties of the schema traversals *)

\* What a traversal returns when it stops at the depth cap on the schema
\* there, and what it returns for a schema it reaches below the cap
capped_result(name, there) ==
    CASE name = "resolve_refs" -> there
      [] name = "generate" -> {JNull}
      [] name \in {"boundaries", "type_confusion_values"} -> <<>>

direct_result(name, schema) ==
    CASE name = "resolve_refs" -> schema
      [] name = "generate" -> generate(schema, arg.components)
      [] name = "boundaries" -> boundaries(schema, arg.components)
      [] name = "type_confusion_values" -> type_confusion_values(schema, arg.components)

\* The schema a traversal of a reference on a cycle holds at depth 21: the
\* cycle of two is left after an odd number of steps
on_cycle_at_cap(schema) ==
    CASE schema = ref_to("Loop") -> ref_to("Loop")
      [] schema = ref_to("Ping") -> ref_to("Pong")
      [] schema = ref_to("Pong") -> ref_to("Ping")

-----------------------------------------------------------------------------
(* Properties of the request-body properties *)

\* The names Boundary and TypeConfusion enumerate as body properties
resolved_prop_names(op, components_) ==
    IF is_some(op.request_body_schema)
    THEN LET props == resolve_object_properties(op.request_body_schema[1], components_) IN
         {props[i].name : i \in 1..Len(props)}
    ELSE {}

\* C29: the names collect_probe_cases treats as request-body properties are
\* the names resolve_object_properties gives for the body schema, also when
\* the body schema is a $ref to a component; so the cases of a probe for the
\* operation whose target is such a property and not a parameter are all
\* body-property overrides of the target.
C29_ProbeSeesBodyProperties ==
    call = "collect_probe_cases" =>
        LET op == arg.op
            names == resolved_prop_names(op, arg.components)
            probe == arg.probes[1]
            param_names == {op.parameters[j].name : j \in 1..Len(op.parameters)}
        IN /\ {body_prop_names(op)[i] : i \in 1..Len(body_prop_names(op))} = names
           /\ (/\ matches_operation(probe, op.method, op.path)
               /\ probe.target \in names \ param_names)
              => /\ Len(res) = Len(to_json_values(probe))
                 /\ \A i \in 1..Len(res) :
                       /\ res[i].overrides.params = EmptyMap
                       /\ DOMAIN res[i].overrides.body_props = {probe.target}

-----------------------------------------------------------------------------
(* Properties of the deterministic phases *)

\* The cases the run collects for its k-th operation in the Probe, Boundary
\* and TypeConfusion phases
collected_cases(k) ==
    << collect_probe_cases(operations[k], Probes),
       collect_boundary_cases(operations[k], components),
       collect_type_confusion_cases(operations[k], components) >>

-----------------------------------------------------------------------------
(* Properties of the case ids *)

\* C23: at the end of a run every RawFailure of the output carries the case
\* id of exactly one stored interaction, the one whose response produced
\* it, so that the classifier's lookup by case id finds that interaction.
C23_FailureJoinsItsInteraction ==
    pc = "classified" =>
        LET out == into_output(acc) IN
        \A n \in 1..Len(out.failures) :
            LET f == out.failures[n]
                hits == {i \in 1..Len(out.interactions) :
                            out.interactions[i].case_id = f.case_id}
            IN /\ is_some(f.case_id)
               /\ Cardinality(hits) = 1
               /\ \A i \in hits :
                     /\ contains(out.interactions[i].failures, f)
                     /\ lookup_interaction(out.interactions, f.case_id[1])
                            = Some(out.interactions[i])

====
